---- MODULE Spec2Model ----
(***************************************************************************)
(* A model of the real-time map's event coordination core.                 *)
(*                                                                         *)
(*   mapCoordinator.js      (src/unnamed/part_001)  the event coordinator  *)
(*   WorldMapComponent      (src/path.js)           the producers of events*)
(*   realtimeManager.js     (src/modules)           the poller             *)
(*   markerManager.js       (src/modules)           the live marker set    *)
(*   userInteractionManager (src/unnamed/part_003)  drag and zoom gestures *)
(*                                                                         *)
(* Spec is the coordinator under arbitrary callers: every call of          *)
(* queueEvent and every settlement of a dispatched downstream promise.     *)
(* SpecApp adds the display-mode handler of the component and the poller's *)
(* timer.  A downstream operation is asynchronous: it is dispatched by     *)
(* executeEvent and settles (resolves or rejects) in a later step, and     *)
(* nothing in the source cancels it, so several may be pending at once.    *)
(* SpecMarkers is the marker manager under any succession of marker lists: *)
(* processMarkers builds the live set, updateMarkersFromData refreshes it. *)
(* SpecRefreshRule, SpecDateLine, SpecCluster, SpecNullable and SpecPopup   *)
(* are the marker manager under the lists and calls one rule is about: the *)
(* rebuild limit, the date-line duplicate, the cluster mode, markers with  *)
(* no coordinates, popups the user opens.                                  *)
(* SpecPoller is the realtime manager under its callers and its timers.  A *)
(* timer callback runs alone; the update it starts waits for nothing but   *)
(* promises already settled, so it ends before any other callback runs.    *)
(* The update forceUpdate starts goes on once the caller has returned, so  *)
(* the caller may call the realtime manager before it ends.  SpecTicks is  *)
(* the realtime manager started and stopped, without forced updates.       *)
(* SpecInteraction is the user interaction manager under the drag and zoom *)
(* events of the map, its two timers and the replies of the backend.       *)
(* SpecPayloads, SpecLifecycle and SpecFailures are the marker manager     *)
(* under events whose payload may hold no list, under every operation it   *)
(* offers, and under updates in which the icon of a marker cannot be made. *)
(* SpecZoom is the user interaction manager under bursts of zooms that end *)
(* at several levels; SpecZoomChange is the handling of zoom changes with  *)
(* the display modes the user selects.  SpecSettling is Spec with every    *)
(* dispatched promise settling eventually.                                 *)
(***************************************************************************)
EXTENDS Integers, Sequences, FiniteSets, Bags, TLC

\* ------------------------------------------------------------------ bounds

\* Calls of the component's queueEvent by the generic producers in one run.
MaxEnqueues == 2

\* Display-mode changes requested from the UI in one run.
MaxModeChanges == 1

\* ------------------------------------------------------------- vocabulary

\* currentEvent.type === null: no event is active.
NoType == "null"

\* The event types the generic producers submit: a reconciliation event, a
\* user-originated event, and a type that has no dispatch case.
GenericTypes == {"data_update", "user_center_change", "initialization"}

Priorities == {"normal", "high", "critical"}

\* The metric modes of the display-mode catalog (modemap.mode).
Modes == {"num_state", "cn_on_hub"}

\* A payload is the object handed to queueEvent: ref is its identity (0 is
\* null, no object), mode its .mode field ("undefined" when it has none).
NullData == [ref |-> 0, mode |-> "undefined"]

\* The reply the component holds when it is mounted (dataP).
InitialReply == [ref |-> 1, mode |-> "undefined"]

Obj(k) == [ref |-> k, mode |-> "undefined"]

ModeInfo(k, m) == [ref |-> k, mode |-> m]

\* eventType.startsWith('user_')
IsUserType(t) == t \in {"user_zoom_change", "user_bounds_change", "user_center_change"}

\* The cases of executeEvent's switch.
DispatchCases ==
  {"data_update", "process_markers", "update_icon_sizes", "update_tooltip_state",
   "update_marker_mode", "user_zoom_change", "user_bounds_change",
   "user_center_change", "realtime_update"}

\* The cases whose callback reads a field of the payload (data.data,
\* data.markers, data.iconSizes, data.enabled, data.mode) before it calls the
\* downstream operation: with a null payload the callback itself throws.
DerefCases ==
  {"data_update", "process_markers", "update_icon_sizes", "update_tooltip_state",
   "update_marker_mode"}

\* e.type.includes('marker') || e.type.includes('update')
IsMarkerRelated(t) ==
  t \in {"data_update", "process_markers", "update_icon_sizes", "update_tooltip_state",
         "update_marker_mode", "realtime_update", "marker_click", "marker_hover"}

VARIABLES
  coordinator,     \* the coordinator state object (createCoordinator)
  pending,         \* the dispatched downstream promises that have not settled
  markers,         \* markerManager: the data the live marker set was built from
  iconCache,       \* markerRenderer.iconCache holds entries
  updateTimer,     \* realtimeManager.updateTimer is a pending timer
  isModeChanging,  \* the component's mode-change guard (its 100 ms timer is pending)
  clock,           \* Date.now(), as a logical clock that ticks when it is read
  nEnq,            \* generic queueEvent calls made so far
  nMode,           \* display-mode changes requested so far
  last,            \* history: the step taken last and the state it found
  owed,            \* history: events preempted and not started again
  markerManager,   \* markerManager: its marker data and its marker instances
  refresh,         \* history: the marker manager call made last and what it did
  realtimeManager, \* realtimeManager: its update state and configuration
  timeouts,        \* the delays of the realtimeManager timers that are pending
  performing,      \* the performUpdate calls of forceUpdate that have not settled
  polled,          \* history: the realtimeManager step taken last and what it did
  userInteractionManager, \* userInteractionManager: its timers and its flags
  debounces,       \* the delays of the userInteractionManager timers that are pending
  gestures         \* the gestures of the user that are in progress, and their number

coordVars == <<coordinator, pending, clock, owed>>

sharedVars == <<markers, iconCache>>

markerVars == <<markerManager, refresh>>

pollerVars == <<realtimeManager, timeouts, performing, polled>>

interactionVars == <<userInteractionManager, debounces, gestures>>

appVars ==
  <<coordinator, pending, markers, iconCache, updateTimer, isModeChanging, clock,
    nEnq, nMode, last, owed, realtimeManager, timeouts, performing, polled,
    userInteractionManager, debounces, gestures>>

vars ==
  <<coordinator, pending, markers, iconCache, updateTimer, isModeChanging, clock,
    nEnq, nMode, last, owed, markerManager, refresh, realtimeManager, timeouts,
    performing, polled, userInteractionManager, debounces, gestures>>

\* ------------------------------------------------------------ coordinator

IdleEvent ==
  [type |-> NoType, data |-> NullData, isInterruptible |-> TRUE, priority |-> "undefined"]

\* The zoom level of a new coordinator and of a new map.
InitialZoom == 5

\* previousZoom: null, until a zoom change has been handled (the levels of
\* the map lie between minZoom 3 and maxZoom 15).
NullZoom == 0

\* iconSizeUtils.calculateIconSizes: the sides of the icon and of the
\* satellite icon (anchors are derived from the sides).
calculateIconSizes(zoomLevel) ==
  IF zoomLevel >= 13 THEN [icon |-> 16, satellite |-> 14]
  ELSE IF zoomLevel >= 10 THEN [icon |-> 24, satellite |-> 20]
  ELSE IF zoomLevel >= 7 THEN [icon |-> 32, satellite |-> 26]
  ELSE IF zoomLevel >= 5 THEN [icon |-> 40, satellite |-> 32]
  ELSE [icon |-> 48, satellite |-> 40]

createCoordinator ==
  [state |-> "initializing",
   currentZoom |-> InitialZoom,
   previousZoom |-> NullZoom,
   iconSizes |-> calculateIconSizes(InitialZoom),
   isReady |-> FALSE,
   userInteracting |-> FALSE,
   pendingUpdates |-> FALSE,
   currentMarkerMode |-> "num_state",
   errorInfo |-> [code |-> 0, event |-> NoType],
   currentEvent |-> IdleEvent,
   eventQueue |-> <<>>,
   lastUserEvent |-> [type |-> NoType, data |-> NullData],
   componentInstance |-> FALSE]

\* The threaded state of one call: the coordinator object, the pending
\* promises, the clock, and the events the call has started, in order (owed
\* and started are history).
Sys ==
  [co |-> coordinator, ops |-> pending, clock |-> clock, owed |-> owed, started |-> <<>>]

\* isEventInterruptible with an empty list of types.
isEventInterruptible_Always(eventType) == TRUE

isEventInterruptible(eventType) ==
  \* this.currentEvent is undefined on the module object, so the source's
  \* test of a critical current event never succeeds.
  eventType \notin {"initialization", "error_handling"}

QueueEntry(type, data, priority, now, resumes) ==
  [type |-> type, data |-> data, priority |-> priority, timestamp |-> now,
   resumes |-> resumes]

\* Array.prototype.sort with the comparator of eventCompleted: stable, the
\* entries of priority high before all others.
\* eventCompleted without its sort: the front entry is started.
SortByPriority_None(q) == q

SortByPriority(q) ==
  SelectSeq(q, LAMBDA e: e.priority = "high") \o SelectSeq(q, LAMBDA e: e.priority # "high")

\* The promise chain executeEvent leaves pending: cur marks the operation of
\* the event that holds the active slot.
Operation(type, data) == [type |-> type, data |-> data, cur |-> TRUE]

Stale(ops) == [i \in DOMAIN ops |-> [ops[i] EXCEPT !.cur = FALSE]]

\* eventCompleted without the start of the next queued event.
eventCompleted_Clearing(s) ==
  [s EXCEPT !.co.currentEvent = IdleEvent, !.ops = Stale(s.ops)]

RECURSIVE startEvent(_, _, _, _), executeEvent(_), eventCompleted(_)

startEvent(s, eventType, eventData, priority) ==
  executeEvent(
    [s EXCEPT !.co.currentEvent =
                 [type |-> eventType, data |-> eventData,
                  isInterruptible |-> isEventInterruptible(eventType),
                  priority |-> priority],
              !.ops = Stale(s.ops),
              !.started = Append(s.started, [type |-> eventType, data |-> eventData])])

executeEvent(s) ==
  LET ev == s.co.currentEvent IN
  IF ~s.co.componentInstance THEN eventCompleted(s)
  ELSE IF ev.type \notin DispatchCases THEN eventCompleted(s)
  ELSE IF ev.type \in DerefCases /\ ev.data = NullData
    THEN s   \* the callback throws: nothing is dispatched, nothing completes
  ELSE [s EXCEPT !.ops = Append(s.ops, Operation(ev.type, ev.data))]

eventCompleted(s) ==
  LET cleared == [s EXCEPT !.co.currentEvent = IdleEvent, !.ops = Stale(s.ops)] IN
  IF Len(s.co.eventQueue) > 0
    THEN LET sorted == SortByPriority(s.co.eventQueue)
             nextEvent == Head(sorted)
         IN startEvent(
              [cleared EXCEPT
                 !.co.eventQueue = Tail(sorted),
                 !.owed = IF nextEvent.resumes
                            THEN @ \ {[type |-> nextEvent.type, data |-> nextEvent.data]}
                            ELSE @],
              nextEvent.type, nextEvent.data, "normal")
    ELSE cleared

handleEventError(s) ==
  eventCompleted(
    [s EXCEPT !.co.errorInfo = [code |-> 500, event |-> s.co.currentEvent.type],
              !.co.state = "error"])

\* A preemption: the active event is saved at the front of the queue.
Requeue(s, priority) ==
  [s EXCEPT
     !.co.eventQueue =
        <<QueueEntry(s.co.currentEvent.type, s.co.currentEvent.data, priority, s.clock, TRUE)>>
        \o s.co.eventQueue,
     !.clock = s.clock + 1,
     !.owed = @ \cup {[type |-> s.co.currentEvent.type, data |-> s.co.currentEvent.data]}]

\* queueEvent with the priority and type test of its preemption branch left out.
queueEvent_AlwaysPreempts(s, eventType, eventData, priority) ==
  LET cur == s.co.currentEvent IN
  IF priority = "critical" THEN
    startEvent(
      IF cur.type # NoType
        THEN Requeue(s, IF cur.priority = "undefined" THEN "normal" ELSE cur.priority)
        ELSE s,
      eventType, eventData, priority)
  ELSE IF cur.type = NoType THEN
    startEvent(s, eventType, eventData, "normal")
  ELSE IF cur.isInterruptible THEN
    startEvent(Requeue(s, "high"), eventType, eventData, "normal")
  ELSE
    [s EXCEPT
       !.co.eventQueue =
          Append(s.co.eventQueue, QueueEntry(eventType, eventData, priority, s.clock, FALSE)),
       !.clock = s.clock + 1]

\* queueEvent with the preempted event saved under the priority it had.
queueEvent_KeepingPriority(s, eventType, eventData, priority) ==
  LET cur == s.co.currentEvent IN
  IF priority = "critical" THEN
    startEvent(
      IF cur.type # NoType
        THEN Requeue(s, IF cur.priority = "undefined" THEN "normal" ELSE cur.priority)
        ELSE s,
      eventType, eventData, priority)
  ELSE IF cur.type = NoType THEN
    startEvent(s, eventType, eventData, "normal")
  ELSE IF (priority = "high" \/ IsUserType(eventType)) /\ cur.isInterruptible THEN
    startEvent(Requeue(s, IF cur.priority = "undefined" THEN "normal" ELSE cur.priority),
               eventType, eventData, "normal")
  ELSE
    [s EXCEPT
       !.co.eventQueue =
          Append(s.co.eventQueue, QueueEntry(eventType, eventData, priority, s.clock, FALSE)),
       !.clock = s.clock + 1,
       !.co.lastUserEvent =
          IF IsUserType(eventType) THEN [type |-> eventType, data |-> eventData] ELSE @]

\* queueEvent handing the priority to startEvent in every branch.
queueEvent_PassingPriority(s, eventType, eventData, priority) ==
  LET cur == s.co.currentEvent IN
  IF priority = "critical" THEN
    startEvent(
      IF cur.type # NoType
        THEN Requeue(s, IF cur.priority = "undefined" THEN "normal" ELSE cur.priority)
        ELSE s,
      eventType, eventData, priority)
  ELSE IF cur.type = NoType THEN
    startEvent(s, eventType, eventData, priority)
  ELSE IF (priority = "high" \/ IsUserType(eventType)) /\ cur.isInterruptible THEN
    startEvent(Requeue(s, "high"), eventType, eventData, priority)
  ELSE
    [s EXCEPT
       !.co.eventQueue =
          Append(s.co.eventQueue, QueueEntry(eventType, eventData, priority, s.clock, FALSE)),
       !.clock = s.clock + 1,
       !.co.lastUserEvent =
          IF IsUserType(eventType) THEN [type |-> eventType, data |-> eventData] ELSE @]

\* queueEvent with the critical branch appending the saved event at the tail.
queueEvent_CriticalAtTail(s, eventType, eventData, priority) ==
  LET cur == s.co.currentEvent IN
  IF priority = "critical" THEN
    startEvent(
      IF cur.type # NoType
        THEN [s EXCEPT
                !.co.eventQueue =
                   Append(@, QueueEntry(cur.type, cur.data, cur.priority, s.clock, TRUE)),
                !.clock = s.clock + 1]
        ELSE s,
      eventType, eventData, priority)
  ELSE IF cur.type = NoType THEN
    startEvent(s, eventType, eventData, "normal")
  ELSE IF (priority = "high" \/ IsUserType(eventType)) /\ cur.isInterruptible THEN
    startEvent(Requeue(s, "high"), eventType, eventData, "normal")
  ELSE
    [s EXCEPT
       !.co.eventQueue =
          Append(s.co.eventQueue, QueueEntry(eventType, eventData, priority, s.clock, FALSE)),
       !.clock = s.clock + 1]

queueEvent(s, eventType, eventData, priority) ==
  LET cur == s.co.currentEvent IN
  IF priority = "critical" THEN
    startEvent(
      IF cur.type # NoType
        THEN Requeue(s, IF cur.priority = "undefined" THEN "normal" ELSE cur.priority)
        ELSE s,
      eventType, eventData, priority)
  ELSE IF cur.type = NoType THEN
    startEvent(s, eventType, eventData, "normal")
  ELSE IF (priority = "high" \/ IsUserType(eventType)) /\ cur.isInterruptible THEN
    startEvent(Requeue(s, "high"), eventType, eventData, "normal")
  ELSE
    [s EXCEPT
       !.co.eventQueue =
          Append(s.co.eventQueue, QueueEntry(eventType, eventData, priority, s.clock, FALSE)),
       !.clock = s.clock + 1,
       !.co.lastUserEvent =
          IF IsUserType(eventType) THEN [type |-> eventType, data |-> eventData] ELSE @]

\* --------------------------------------------------- downstream operations

\* What a downstream operation that resolves has done to the shared state:
\* updateMarkersFromData and processMarkers rebuild the live set from the
\* payload and fill the icon cache; updateMarkerMode sets the display mode,
\* clears the cache and re-renders the icon of every live marker.
Effect(op, sh) ==
  IF op.type \in {"data_update", "process_markers"}
    THEN [sh EXCEPT !.markers = op.data.ref, !.iconCache = TRUE]
  ELSE IF op.type = "update_marker_mode"
    THEN [sh EXCEPT !.mode = op.data.mode, !.iconCache = (sh.markers # 0)]
  ELSE sh

Shared == [markers |-> markers, iconCache |-> iconCache, mode |-> coordinator.currentMarkerMode]

\* --------------------------------------------------------- marker manager

\* Markers in a list handed to the marker manager.
MaxMarkers == 2

\* Longitudes beyond this are drawn on both sides of the date line.
DateLineLongitude == 140

\* A difference in length beyond this makes a refresh rebuild every marker.
RefreshAllDifference == 10

Latitudes == {"null", "10"}
Longitudes == {0, 150}
Variants == {0, 1}

\* A marker of a list: i is its index (its id is marker_<i>); a marker without
\* coordinates has a null lat.
MarkerData ==
  [i : 1..MaxMarkers, lat : Latitudes \ {"null"}, lon : Longitudes, var : Variants]
    \cup [i : 1..MaxMarkers, lat : {"null"}, lon : {0}, var : {0}]

\* The lists handed over: marker k of a list has index k.
MarkerLists ==
  UNION {{l \in [1..n -> MarkerData] : \A k \in 1..n : l[k].i = k} : n \in 0..MaxMarkers}

\* A property of marker data that holds a number, and one that was never set.
Number(n) == [defined |-> TRUE, value |-> n]

UndefinedNumber == [defined |-> FALSE, value |-> 0]

\* The glyphs of the icon sheet: the elements icon_0 .. icon_15.
IconCount == 16

\* The id processMarkers and updateChangedMarkers give a marker; the marker
\* of a list as it is received has neither iconNumber nor iconColor.
WithId(marker) ==
  [id |-> [i |-> marker.i, dateline |-> FALSE], i |-> marker.i, lat |-> marker.lat,
   lon |-> marker.lon, var |-> marker.var,
   iconNumber |-> UndefinedNumber, iconColor |-> UndefinedNumber]

\* The properties processMarkers adds to a marker.
WithIcon(marker) ==
  [marker EXCEPT !.iconNumber = Number(marker.i % IconCount),
                 !.iconColor = Number(marker.i \div IconCount)]

\* The maximum of a continuous metric when the coordinator holds none.
DefaultModeMax == 100

\* A colour #rrggbb as its red, green and blue.
Hex(r, g, b) == <<r, g, b>>

\* getMarkerColor with the predefined colours (the coordinator holds no
\* state colours).
getMarkerColor(state) ==
  CASE state = 0 -> Hex(92, 184, 92)
    [] state = 1 -> Hex(240, 173, 78)
    [] state = 2 -> Hex(255, 153, 0)
    [] state \in {3, 4} -> Hex(217, 83, 79)
    [] state = 5 -> Hex(153, 0, 204)
    [] state = 6 -> Hex(2, 117, 216)
    [] state = 8 -> Hex(91, 192, 222)
    [] state = 9 -> Hex(41, 43, 44)
    [] OTHER -> Hex(119, 119, 119)

\* Math.round of 255 * 2 * part / whole, for part and whole not negative.
Round510(part, whole) == (1020 * part + whole) \div (2 * whole)

\* getValueColor: from red to green via yellow along value / maxValue;
\* currentMarkerMode is the mode of the coordinator the renderer holds.
getValueColor(value, maxValue, mode, currentMarkerMode) ==
  LET safeMax == IF maxValue <= 0 THEN DefaultModeMax ELSE maxValue
      clamped == IF value < 0 THEN 0 ELSE IF value > safeMax THEN safeMax ELSE value
      part == IF mode = "reverse" THEN safeMax - clamped ELSE clamped
  IN IF currentMarkerMode = "num_state" THEN getMarkerColor(value)
     ELSE IF 2 * part < safeMax THEN Hex(255, Round510(part, safeMax), 0)
     ELSE Hex(Round510(safeMax - part, safeMax), 255, 0)

\* The fill colour createMarkerIcon determines from the display mode.
fillColor(currentMarkerMode, markerData) ==
  IF currentMarkerMode = "num_state" THEN getMarkerColor(markerData.var)
  ELSE getValueColor(markerData.var, DefaultModeMax, currentMarkerMode, currentMarkerMode)

\* createMarkerIcon: the glyph of element icon_<iconNumber>, or a circle
\* when the document has no such element.
createMarkerIcon(markerData) ==
  IF markerData.iconNumber.defined /\ markerData.iconNumber.value \in 0..(IconCount - 1)
    THEN [glyph |-> markerData.iconNumber.value, circle |-> FALSE]
    ELSE [glyph |-> 0, circle |-> TRUE]

CrossesDateLine(marker) ==
  marker.lon < -DateLineLongitude \/ marker.lon > DateLineLongitude

\* duplicateMarkerAcrossDateLine with the duplicate mirrored about longitude 0.
duplicateMarkerAcrossDateLine_Mirrored(marker) ==
  [marker EXCEPT !.id.dateline = TRUE, !.lon = -marker.lon]

duplicateMarkerAcrossDateLine(marker) ==
  [marker EXCEPT !.id.dateline = TRUE,
                 !.lon = IF marker.lon < 0 THEN 180 + (180 + marker.lon)
                                           ELSE -180 - (180 - marker.lon)]

\* A new marker with its duplicate across the date line, when it has one.
WithDuplicate(marker) ==
  IF CrossesDateLine(marker) THEN <<marker, duplicateMarkerAcrossDateLine(marker)>>
  ELSE <<marker>>

Ids(markerList) == {markerList[k].id : k \in DOMAIN markerList}

\* A mode whose name says cluster draws the markers in the cluster group.
IsClusterMode(mode) == mode \in {"num_state_cluster", "cn_on_hub_cluster"}

normalizeCoordinates(lon) ==
  IF lon > 180 THEN lon - 360
  ELSE IF lon < -180 THEN lon + 360
  ELSE lon

\* The Leaflet marker created for marker data: where it is drawn, the variant
\* its icon and popup show, and whether its popup is open.  created tells the
\* markers made by the call in progress from the ones the call found.
Handle(currentMarkerMode, markerData) ==
  [lat |-> markerData.lat, lon |-> normalizeCoordinates(markerData.lon),
   var |-> markerData.var, isPopupOpen |-> FALSE, created |-> TRUE,
   icon |-> createMarkerIcon(markerData),
   fillColor |-> fillColor(currentMarkerMode, markerData)]

NoInstances ==
  [id \in {} |-> Handle("num_state", [lat |-> "null", lon |-> 0, var |-> 0, iconNumber |-> UndefinedNumber])]

\* The marker manager before any marker is processed: markerLayer is the
\* layer handed to initialize, clusterGroup does not exist yet.
NoMarkers ==
  [markers |-> <<>>, markerInstances |-> NoInstances, markerLayer |-> {},
   clusterGroup |-> {}, hasClusterGroup |-> FALSE, clusterOnMap |-> FALSE,
   currentClusterMode |-> FALSE]

\* What updateMarker finds of a marker before it changes it: its instance and
\* the layers that hold it.
Found(s, id) ==
  [instance |-> s.markerInstances[id], onMarkerLayer |-> id \in s.markerLayer,
   inClusterGroup |-> id \in s.clusterGroup]

NoUpdates == [id \in {} |-> Found(NoMarkers, id)]

\* The marker manager as a call finds it, with the display mode of the
\* coordinator and the counts of what the call does to the live set.
Manager ==
  [markers |-> markerManager.markers,
   markerInstances |->
     [id \in DOMAIN markerManager.markerInstances |->
        [markerManager.markerInstances[id] EXCEPT !.created = FALSE]],
   markerLayer |-> markerManager.markerLayer,
   clusterGroup |-> markerManager.clusterGroup,
   hasClusterGroup |-> markerManager.hasClusterGroup,
   clusterOnMap |-> markerManager.clusterOnMap,
   currentClusterMode |-> markerManager.currentClusterMode,
   currentMarkerMode |-> coordinator.currentMarkerMode,
   updated |-> 0, created |-> 0, removed |-> 0, rebuilt |-> 0,
   updatedFrom |-> NoUpdates]

clearAllMarkers(s) ==
  [s EXCEPT !.markerLayer = {}, !.clusterGroup = {}, !.markerInstances = NoInstances,
            !.removed = @ + Cardinality(DOMAIN s.markerInstances)]

\* The markers taken off their layer and put on the other one; a Leaflet
\* marker closes its popup when it is taken off a layer.
Moved(currentMarkers) ==
  [id \in DOMAIN currentMarkers |-> [currentMarkers[id] EXCEPT !.isPopupOpen = FALSE]]

\* toggleClusterMode without the loops that put the saved markers back.
toggleClusterMode_Dropping(s, enable) ==
  IF enable = s.currentClusterMode THEN s
  ELSE [clearAllMarkers(s) EXCEPT !.hasClusterGroup = IF enable THEN TRUE ELSE @,
                                  !.clusterOnMap = IF enable THEN TRUE ELSE FALSE,
                                  !.currentClusterMode = enable]

toggleClusterMode(s, enable) ==
  IF enable = s.currentClusterMode THEN s
  ELSE LET currentMarkers == Moved(s.markerInstances)
           cleared == [clearAllMarkers(s) EXCEPT !.removed = s.removed]
       IN IF enable
            THEN [cleared EXCEPT !.hasClusterGroup = TRUE,
                                 !.clusterOnMap = IF s.hasClusterGroup THEN @ ELSE TRUE,
                                 !.clusterGroup = DOMAIN currentMarkers,
                                 !.markerInstances = currentMarkers,
                                 !.currentClusterMode = TRUE]
            ELSE [cleared EXCEPT !.clusterOnMap = FALSE,
                                 !.markerLayer = DOMAIN currentMarkers,
                                 !.markerInstances = currentMarkers,
                                 !.currentClusterMode = FALSE]

\* The marker of a list that set() leaves under the id: the last one.
LastWith(markerList, id) ==
  markerList[CHOOSE k \in DOMAIN markerList :
               markerList[k].id = id /\ \A j \in (k + 1)..Len(markerList) : markerList[j].id # id]

createSpecificMarkers(s, markerList) ==
  LET useCluster == IsClusterMode(s.currentMarkerMode)
      t == IF useCluster # s.currentClusterMode THEN toggleClusterMode(s, useCluster) ELSE s
  IN [t EXCEPT
        !.markerInstances =
           [id \in DOMAIN t.markerInstances \cup Ids(markerList) |->
              IF id \in Ids(markerList) THEN Handle(t.currentMarkerMode, LastWith(markerList, id))
              ELSE t.markerInstances[id]],
        !.clusterGroup = IF useCluster THEN @ \cup Ids(markerList) ELSE @,
        !.markerLayer = IF useCluster THEN @ ELSE @ \cup Ids(markerList),
        !.created = @ + Len(markerList)]

createMarkers(s) == createSpecificMarkers(clearAllMarkers(s), s.markers)

\* The markers of a list that have coordinates, each with its duplicate.
RECURSIVE markersWithCoords(_)
markersWithCoords(markerList) ==
  IF markerList = <<>> THEN <<>>
  ELSE LET marker == WithIcon(WithId(Head(markerList))) IN
       (IF marker.lat = "null" THEN <<>> ELSE WithDuplicate(marker))
         \o markersWithCoords(Tail(markerList))

processMarkers(s, markerList) ==
  createMarkers([s EXCEPT !.markers = markersWithCoords(markerList), !.rebuilt = @ + 1])

hasMarkerChanged(oldMarker, newMarker) ==
  \/ oldMarker.lat # newMarker.lat \/ oldMarker.lon # newMarker.lon
  \/ oldMarker.var # newMarker.var
  \/ oldMarker.i # newMarker.i

\* The first marker of a list that has the id.
Find(markerList, id) ==
  CHOOSE k \in DOMAIN markerList :
    markerList[k].id = id /\ \A j \in 1..(k - 1) : markerList[j].id # id

\* updateMarker making a new marker in place of the one it finds.
updateMarker_Recreating(s, markerData) ==
  IF markerData.id \notin DOMAIN s.markerInstances THEN s
  ELSE [s EXCEPT !.updated = @ + 1,
                 !.updatedFrom = (markerData.id :> Found(s, markerData.id)) @@ @,
                 !.markerInstances[markerData.id] = Handle(s.currentMarkerMode, markerData),
                 !.markers = IF markerData.id \in Ids(s.markers)
                               THEN [@ EXCEPT ![Find(s.markers, markerData.id)] = markerData]
                               ELSE @]

updateMarker(s, markerData) ==
  IF markerData.id \notin DOMAIN s.markerInstances THEN s
  ELSE [s EXCEPT !.updated = @ + 1,
                 !.updatedFrom = (markerData.id :> Found(s, markerData.id)) @@ @,
                 !.markerInstances[markerData.id] =
                    [@ EXCEPT !.lat = markerData.lat,
                              !.lon = normalizeCoordinates(markerData.lon),
                              !.var = markerData.var,
                              !.icon = createMarkerIcon(markerData),
                              !.fillColor = fillColor(s.currentMarkerMode, markerData)],
                 !.markers = IF markerData.id \in Ids(s.markers)
                               THEN [@ EXCEPT ![Find(s.markers, markerData.id)] = markerData]
                               ELSE @]

removeMarker(s, markerId) ==
  IF markerId \notin DOMAIN s.markerInstances THEN s
  ELSE [s EXCEPT !.removed = @ + 1,
                 !.clusterGroup = IF s.currentClusterMode THEN @ \ {markerId} ELSE @,
                 !.markerLayer = IF s.currentClusterMode THEN @ ELSE @ \ {markerId},
                 !.markerInstances = [id \in DOMAIN @ \ {markerId} |-> @[id]],
                 !.markers = SelectSeq(@, LAMBDA m : m.id # markerId)]

RECURSIVE removeMarkers(_, _)
removeMarkers(s, markersToRemove) ==
  IF markersToRemove = {} THEN s
  ELSE LET idToRemove == CHOOSE id \in markersToRemove : TRUE IN
       removeMarkers(removeMarker(s, idToRemove), markersToRemove \ {idToRemove})

\* The loop of updateChangedMarkers with a marker without coordinates taken
\* off markersToRemove before it is skipped.
RECURSIVE compareMarkers_KeepingNull(_, _, _)
compareMarkers_KeepingNull(w, current, newMarkerList) ==
  IF newMarkerList = <<>> THEN w
  ELSE LET newMarker == WithId(Head(newMarkerList))
           rest == Tail(newMarkerList)
           kept == [w EXCEPT !.markersToRemove = @ \ {newMarker.id}]
       IN IF newMarker.lat = "null" THEN compareMarkers_KeepingNull(kept, current, rest)
          ELSE IF newMarker.id \in Ids(current)
                 THEN compareMarkers_KeepingNull(
                        IF hasMarkerChanged(current[Find(current, newMarker.id)], newMarker)
                          THEN [kept EXCEPT !.s = updateMarker(@, newMarker)]
                          ELSE kept,
                        current, rest)
                 ELSE compareMarkers_KeepingNull(
                        [kept EXCEPT !.markersToAdd = @ \o WithDuplicate(newMarker)],
                        current, rest)

\* The loop of updateChangedMarkers over the new list: current is the marker
\* data the call found; w holds the manager, markersToRemove and markersToAdd.
RECURSIVE compareMarkers(_, _, _)
compareMarkers(w, current, newMarkerList) ==
  IF newMarkerList = <<>> THEN w
  ELSE LET newMarker == WithId(Head(newMarkerList))
           rest == Tail(newMarkerList)
       IN IF newMarker.lat = "null" THEN compareMarkers(w, current, rest)
          ELSE LET kept == [w EXCEPT !.markersToRemove = @ \ {newMarker.id}] IN
               IF newMarker.id \in Ids(current)
                 THEN compareMarkers(
                        IF hasMarkerChanged(current[Find(current, newMarker.id)], newMarker)
                          THEN [kept EXCEPT !.s = updateMarker(@, newMarker)]
                          ELSE kept,
                        current, rest)
                 ELSE compareMarkers(
                        [kept EXCEPT !.markersToAdd = @ \o WithDuplicate(newMarker)],
                        current, rest)

updateChangedMarkers(s, newMarkerList) ==
  LET w == compareMarkers(
             [s |-> s, markersToRemove |-> Ids(s.markers), markersToAdd |-> <<>>],
             s.markers, newMarkerList)
      removed == removeMarkers(w.s, w.markersToRemove)
  IN IF w.markersToAdd # <<>>
       THEN createSpecificMarkers(
              [removed EXCEPT
                 !.markers = SelectSeq(@, LAMBDA m : m.id \notin w.markersToRemove)
                               \o w.markersToAdd],
              w.markersToAdd)
       ELSE removed

Abs(n) == IF n < 0 THEN -n ELSE n

\* shouldRefreshAllMarkers with a difference of the limit itself rebuilding.
shouldRefreshAllMarkers_AtLimit(s, data) ==
  \/ Abs(Len(s.markers) - Len(data.list)) >= RefreshAllDifference
  \/ data.map_url \/ data.refreshMode

shouldRefreshAllMarkers(s, data) ==
  \/ Abs(Len(s.markers) - Len(data.list)) > RefreshAllDifference
  \/ data.map_url \/ data.refreshMode

updateMarkerMode(s, mode) ==
  LET t == toggleClusterMode([s EXCEPT !.currentMarkerMode = mode], IsClusterMode(mode))
  IN [t EXCEPT
        !.markerInstances =
           [id \in DOMAIN @ |->
              IF id \in Ids(t.markers)
                THEN [@[id] EXCEPT !.var = t.markers[Find(t.markers, id)].var,
                                   !.icon = createMarkerIcon(t.markers[Find(t.markers, id)]),
                                   !.fillColor = fillColor(mode, t.markers[Find(t.markers, id)])]
                ELSE @[id]]]

updateMarkersFromData(s, data) ==
  IF shouldRefreshAllMarkers(s, data) THEN processMarkers(s, data.list)
  ELSE updateChangedMarkers(s, data.list)

NoRefresh ==
  [op |-> "none", list |-> <<>>, builtFrom |-> <<>>,
   updated |-> 0, created |-> 0, removed |-> 0,
   call |-> "none", size |-> 0, map_url |-> FALSE, refreshMode |-> FALSE,
   updatedFrom |-> NoUpdates, valid |-> TRUE, payload |-> "list", failing |-> {},
   errorBefore |-> [info |-> [code |-> 0, event |-> "null"], state |-> "idle"]]

\* What a marker manager call records: the method called and its data, the
\* size of the marker data it found, the list the live set it found had been
\* built from (none once a refresh has changed it) and what it did: op is
\* processMarkers when every marker was processed again.
Refreshed(s, call, data) ==
  /\ markerManager' = [k \in DOMAIN NoMarkers |-> s[k]]
  /\ refresh' = [op |-> IF s.rebuilt > 0 THEN "processMarkers" ELSE "updateChangedMarkers",
                 list |-> data.list,
                 builtFrom |-> IF refresh.op = "processMarkers" THEN <<refresh.list>> ELSE <<>>,
                 updated |-> s.updated, created |-> s.created, removed |-> s.removed,
                 call |-> call, size |-> Len(markerManager.markers),
                 map_url |-> data.map_url, refreshMode |-> data.refreshMode,
                 updatedFrom |-> s.updatedFrom, valid |-> TRUE, payload |-> "list",
                 failing |-> {},
                 errorBefore |-> NoRefresh.errorBefore]

\* The values a caller may hand over where a list or data is expected:
\* undefined, null, an object that is no array, an array of markers, and an
\* array with a null entry.
Undefined == [kind |-> "undefined"]

Null == [kind |-> "null"]

NotAnArray == [kind |-> "object"]

Array(markerList) == [kind |-> "array", items |-> markerList, holdsNull |-> FALSE]

ArrayWithNull == [kind |-> "array", items |-> <<>>, holdsNull |-> TRUE]

\* An object with a list field and no flag.
DataWith(list) == [kind |-> "data", list |-> list]

Falsy(v) == v.kind \in {"undefined", "null"}

IsArray(v) == v.kind = "array"

\* A marker manager call returns (threw is FALSE) or throws, leaving the
\* marker manager as m.
Returns(m) == [m |-> m, threw |-> FALSE]

Throws(m) == [m |-> m, threw |-> TRUE]

\* processMarkers without its test of the list: forEach is called on it.
processMarkersOf_Unguarded(s, markerList) ==
  IF ~IsArray(markerList) \/ markerList.holdsNull THEN Throws(s)
  ELSE Returns(processMarkers(s, markerList.items))

\* processMarkers called with any value: its test of the list, then the
\* loop, which throws on a null entry before the marker data is replaced.
processMarkersOf(s, markerList) ==
  IF Falsy(markerList) \/ ~IsArray(markerList) THEN Returns(s)
  ELSE IF markerList.holdsNull THEN Throws(s)
  ELSE Returns(processMarkers(s, markerList.items))

\* updateMarkersFromData called with any value: its test of the data, then
\* the rule and the path it chooses; the loop of either path throws on a
\* null entry before it changes a marker.
updateMarkersFromDataOf(s, data) ==
  IF Falsy(data) THEN Returns(s)
  ELSE IF Falsy(data.list) THEN Returns(s)
  ELSE IF data.list.holdsNull THEN Throws(s)
  ELSE Returns(updateMarkersFromData(
                 s, [list |-> data.list.items, map_url |-> FALSE, refreshMode |-> FALSE]))

\* The value is one the call works on.
ValidList(markerList) == IsArray(markerList) /\ ~markerList.holdsNull

ValidData(data) == data.kind = "data" /\ ~Falsy(data.list) /\ ValidList(data.list)

\* What a call records that returned without looking at a list.
ReturnedEarly(r, call, payload) ==
  /\ markerManager' = [k \in DOMAIN NoMarkers |-> r.m[k]]
  /\ refresh' = [NoRefresh EXCEPT
                   !.op = IF r.threw THEN "threw" ELSE "returned",
                   !.updated = r.m.updated, !.created = r.m.created,
                   !.removed = r.m.removed, !.call = call,
                   !.size = Len(markerManager.markers), !.valid = FALSE,
                   !.payload = payload,
                   !.errorBefore = [info |-> coordinator.errorInfo,
                                    state |-> coordinator.state]]

\* The data of a call that hands over a list and no flag.
ListOnly(markerList) == [list |-> markerList, map_url |-> FALSE, refreshMode |-> FALSE]

\* The operation of a process_markers event runs on a list.
runProcessMarkers(markerList) ==
  /\ Refreshed(processMarkers(Manager, markerList), "processMarkers", ListOnly(markerList))
  /\ UNCHANGED appVars

\* The operation of a data_update event, or the poller, refreshes from data.
runUpdateMarkersFromData(data) ==
  /\ Refreshed(updateMarkersFromData(Manager, data), "updateMarkersFromData", data)
  /\ UNCHANGED appVars

\* -------------------------------------------------------- realtime manager

\* The fields realtimeManager is declared with.
updateInterval == 5000

maxConsecutiveErrors == 3

\* The interval setUpdateInterval or the options of startUpdates may set.
Intervals == {updateInterval, 2000}

\* updateTimer holds null or the id setTimeout returned: delay is the delay
\* the timer was set with, pending whether it has neither fired nor been
\* cleared.
NoTimer == [set |-> FALSE, delay |-> 0, pending |-> FALSE]

Timer(delay) == [set |-> TRUE, delay |-> delay, pending |-> TRUE]

NewRealtimeManager ==
  [updateTimer |-> NoTimer, lastUpdateTime |-> 0, isUpdating |-> FALSE,
   updateInterval |-> updateInterval, errorCount |-> 0]

\* The realtime manager as a step finds it, with the timers pending, the
\* number of updates performed so far (the clock lastUpdateTime is set from)
\* and what the step does: the delays of the timers it sets, the timers it
\* clears, the updates it begins.
Poller ==
  [rm |-> realtimeManager, timeouts |-> timeouts, now |-> polled.updates,
   scheduled |-> <<>>, cleared |-> 0, began |-> 0]

\* clearTimeout(this.updateTimer): a timer that fired is cleared to no effect.
clearUpdateTimer(p) ==
  IF p.rm.updateTimer.pending
    THEN [p EXCEPT !.timeouts = @ (-) SetToBag({p.rm.updateTimer.delay}),
                   !.cleared = @ + 1]
    ELSE p

stopUpdates(p) ==
  IF p.rm.updateTimer.set
    THEN [clearUpdateTimer(p) EXCEPT !.rm.updateTimer = NoTimer]
    ELSE p

\* scheduleNextUpdate() uses updateInterval; the timer updateTimer held stays
\* pending, and is no longer held.
DefaultDelay == -1

scheduleNextUpdate(p, delay) ==
  LET nextDelay == IF delay # DefaultDelay THEN delay ELSE p.rm.updateInterval
  IN [p EXCEPT !.rm.updateTimer = Timer(nextDelay),
               !.timeouts = @ (+) SetToBag({nextDelay}),
               !.scheduled = Append(@, nextDelay)]

\* startUpdates with options.interval (0: no option given).
NoInterval == 0

startUpdates(p, interval) ==
  LET stopped == stopUpdates(p)
      configured == IF interval # NoInterval
                      THEN [stopped EXCEPT !.rm.updateInterval = interval]
                      ELSE stopped
  IN scheduleNextUpdate(configured, 0)

\* performUpdate up to its first await.
beginUpdate(p) ==
  [p EXCEPT !.rm.isUpdating = TRUE, !.began = @ + 1, !.now = @ + 1]

\* performUpdate scheduling the next update at the end of its try block: an
\* update that finds no data or fails returns before it.
endUpdate_Returning(p, outcome, external) ==
  LET idle == [p EXCEPT !.rm.isUpdating = FALSE] IN
  CASE outcome = "updated" ->
         LET done == [idle EXCEPT !.rm.lastUpdateTime = p.now, !.rm.errorCount = 0]
         IN IF ~external /\ done.rm.updateTimer.set
              THEN scheduleNextUpdate(done, DefaultDelay) ELSE done
    [] outcome = "no data" -> idle
    [] outcome = "failed" -> [idle EXCEPT !.rm.errorCount = @ + 1]

\* performUpdate from its first await on: the try block with the outcome of
\* the update, the catch block, and the finally block, which runs after the
\* return of the catch block as well.
endUpdate(p, outcome, external) ==
  LET done ==
        CASE outcome = "updated" ->
               [p EXCEPT !.rm.lastUpdateTime = p.now, !.rm.errorCount = 0]
          [] outcome = "no data" -> p
          [] outcome = "failed" -> [p EXCEPT !.rm.errorCount = @ + 1]
      idle == [done EXCEPT !.rm.isUpdating = FALSE]
  IN IF ~external /\ idle.rm.updateTimer.set
       THEN scheduleNextUpdate(idle, DefaultDelay)
       ELSE idle

\* The callback of the timer scheduleNextUpdate sets, which performs an
\* update whatever the state of the map.
timerCallback_Unguarded(p, co, outcome) ==
  endUpdate(beginUpdate(p), outcome, FALSE)

\* The callback of the timer scheduleNextUpdate sets.  The update it starts
\* waits for no timer and no request, so it ends before any other callback
\* runs.
timerCallback(p, co, outcome) ==
  IF co.isReady /\ ~co.userInteracting
    THEN endUpdate(beginUpdate(p), outcome, FALSE)
    ELSE scheduleNextUpdate(p, DefaultDelay)

\* forceUpdate up to the first await of performUpdate.
forceUpdate(p) ==
  beginUpdate(IF p.rm.updateTimer.set
                THEN [clearUpdateTimer(p) EXCEPT !.rm.updateTimer = NoTimer]
                ELSE p)

setUpdateInterval(p, seconds) ==
  LET configured == [p EXCEPT !.rm.updateInterval = seconds * 1000]
  IN IF configured.rm.updateTimer.set
       THEN startUpdates(stopUpdates(configured), NoInterval)
       ELSE configured

\* A performUpdate call of forceUpdate that is under way: updating until its
\* finally block has run, performed until the then callback of forceUpdate
\* has run, with the delays of the timers its finally block set.
Performing(stage, scheduled) == [stage |-> stage, scheduled |-> scheduled]

\* No performUpdate call of forceUpdate is under way; settling is set while
\* the promise callbacks of such calls run.
NotPerforming == [calls |-> <<>>, settling |-> FALSE]

NotPolled ==
  [op |-> "none", ticks |-> 0, calls |-> 0, updates |-> 0, stopped |-> FALSE,
   scheduled |-> <<>>, cleared |-> 0, began |-> 0, outcome |-> "none",
   found |-> NewRealtimeManager, pendingBefore |-> 0, paused |-> FALSE,
   ready |-> FALSE, interacting |-> FALSE, started |-> FALSE]

\* ------------------------------------------------ user interaction manager

\* The fields userInteractionManager is declared with.
interactionDelay == 300

zoomDebounceDelay == 250

NewUserInteractionManager ==
  [interactionTimeout |-> NoTimer, zoomDebounceTimer |-> NoTimer,
   isInteracting |-> FALSE, isInitialLoad |-> TRUE]

\* No drag and no zoom of the user is in progress; started counts the
\* gestures begun so far.
\* level is the zoom level of the map; signals counts the zoom-end signals
\* since the zoom debounce timer last fired and burst those its last firing
\* answered; trail holds the last two zoom changes handled: the levels the
\* map moved between and the display mode before and after (history).
NoGestures ==
  [drag |-> FALSE, zoom |-> FALSE, started |-> 0, level |-> InitialZoom,
   signals |-> 0, burst |-> 0, trail |-> <<>>]

\* The user interaction manager as a step finds it, with its pending timers
\* and the userInteracting flag of the coordinator.
Interaction ==
  [uim |-> userInteractionManager, debounces |-> debounces,
   userInteracting |-> coordinator.userInteracting]

\* clearTimeout of a timer a field holds: one that fired is cleared to no
\* effect.
clearHeld(u, timer) ==
  IF timer.pending THEN [u EXCEPT !.debounces = @ (-) SetToBag({timer.delay})] ELSE u

\* startUserInteraction: the field keeps the id of the timer it clears.
startInteraction(u) ==
  LET marked == [u EXCEPT !.uim.isInteracting = TRUE, !.userInteracting = TRUE]
  IN IF u.uim.interactionTimeout.set
       THEN [clearHeld(marked, u.uim.interactionTimeout)
               EXCEPT !.uim.interactionTimeout.pending = FALSE]
       ELSE marked

\* endUserInteraction sets a timer and clears none.
endInteraction(u) ==
  [u EXCEPT !.uim.interactionTimeout = Timer(interactionDelay),
            !.debounces = @ (+) SetToBag({interactionDelay})]

\* handleZoomEnd without the clearTimeout of the timer the field holds.
zoomEnded_Keeping(u) ==
  [u EXCEPT !.uim.isInitialLoad = FALSE,
            !.uim.zoomDebounceTimer = Timer(zoomDebounceDelay),
            !.debounces = @ (+) SetToBag({zoomDebounceDelay})]

\* handleZoomEnd, up to the timer it sets.
zoomEnded(u) ==
  LET cleared == IF u.uim.zoomDebounceTimer.set
                   THEN [clearHeld(u, u.uim.zoomDebounceTimer)
                           EXCEPT !.uim.zoomDebounceTimer.pending = FALSE]
                   ELSE u
  IN [cleared EXCEPT !.uim.isInitialLoad = FALSE,
                     !.uim.zoomDebounceTimer = Timer(zoomDebounceDelay),
                     !.debounces = @ (+) SetToBag({zoomDebounceDelay})]

\* A pending timer with the delay fires: the one the field holds (held) or
\* one the field holds no more.
CanFire(timer, delay, held) ==
  /\ BagIn(delay, debounces)
  /\ LET isHeld == timer.pending /\ timer.delay = delay
     IN IF held THEN isHeld ELSE CopiesIn(delay, debounces) > (IF isHeld THEN 1 ELSE 0)

\* ------------------------------------------------------------------ steps

Init ==
  /\ coordinator = createCoordinator
  /\ pending = <<>>
  /\ markers = 0
  /\ iconCache = FALSE
  /\ updateTimer = FALSE
  /\ isModeChanging = FALSE
  /\ clock = 1
  /\ nEnq = 0
  /\ nMode = 0
  /\ last = [op |-> "init", type |-> NoType, data |-> NullData, priority |-> "undefined",
             event |-> IdleEvent, queue |-> <<>>, shared |-> [markers |-> 0,
             iconCache |-> FALSE, mode |-> "num_state"], started |-> <<>>]
  /\ owed = {}
  /\ markerManager = NoMarkers
  /\ refresh = NoRefresh
  /\ realtimeManager = NewRealtimeManager
  /\ timeouts = EmptyBag
  /\ performing = NotPerforming
  /\ polled = NotPolled
  /\ userInteractionManager = NewUserInteractionManager
  /\ debounces = EmptyBag
  /\ gestures = NoGestures

\* What a step records: the call, and the active slot, the queue and the
\* shared state it found.
Record(s, op, type, data, priority) ==
  [op |-> op, type |-> type, data |-> data, priority |-> priority,
   event |-> coordinator.currentEvent, queue |-> coordinator.eventQueue,
   shared |-> Shared, started |-> s.started]

Commit(s, op, type, data, priority) ==
  /\ coordinator' = s.co
  /\ pending' = s.ops
  /\ clock' = s.clock
  /\ owed' = s.owed
  /\ last' = Record(s, op, type, data, priority)

\* A payload object created by the next call.
Fresh == nEnq + nMode + 2

\* initializeMap of the component: the managers are initialised, the component
\* registers with the coordinator, the first marker list is submitted and the
\* map is marked ready.
initializeMap ==
  /\ ~coordinator.componentInstance
  /\ LET registered == [Sys EXCEPT !.co.componentInstance = TRUE]
         s == queueEvent(registered, "process_markers", InitialReply, "normal")
     IN Commit([s EXCEPT !.co.isReady = TRUE, !.co.state = "ready"],
               "initializeMap", "process_markers", InitialReply, "normal")
  /\ UNCHANGED <<markers, iconCache, updateTimer, isModeChanging, nEnq, nMode>>
  /\ UNCHANGED <<markerVars, pollerVars, interactionVars>>

\* A producer calls queueEvent.
Enqueue(eventType, eventData, priority) ==
  /\ nEnq < MaxEnqueues
  /\ nEnq' = nEnq + 1
  /\ Commit(queueEvent(Sys, eventType, eventData, priority),
            "queueEvent", eventType, eventData, priority)
  /\ UNCHANGED <<markers, iconCache, updateTimer, isModeChanging, nMode>>
  /\ UNCHANGED <<markerVars, pollerVars, interactionVars>>

Without(ops, i) == SubSeq(ops, 1, i - 1) \o SubSeq(ops, i + 1, Len(ops))

\* The i-th pending operation finishes and its promise resolves: its effect on
\* the shared state is in place and eventCompleted runs.
Resolve(i) ==
  /\ ~(IsUserType(pending[i].type) /\ pending[i].data = NullData)
  /\ LET sh == Effect(pending[i], Shared)
         s == [Sys EXCEPT !.ops = Without(pending, i), !.co.currentMarkerMode = sh.mode]
     IN /\ Commit(eventCompleted(s), IF pending[i].cur THEN "resolve" ELSE "resolveStale",
                  pending[i].type, pending[i].data, "undefined")
        /\ markers' = sh.markers
        /\ iconCache' = sh.iconCache
  /\ UNCHANGED <<updateTimer, isModeChanging, nEnq, nMode>>
  /\ UNCHANGED <<markerVars, pollerVars, interactionVars>>

\* The promise of the i-th pending operation rejects: handleEventError.
Reject(i) ==
  /\ Commit(handleEventError([Sys EXCEPT !.ops = Without(pending, i)]),
            IF pending[i].cur THEN "reject" ELSE "rejectStale",
            pending[i].type, pending[i].data, "undefined")
  /\ UNCHANGED <<markers, iconCache, updateTimer, isModeChanging, nEnq, nMode>>
  /\ UNCHANGED <<markerVars, pollerVars, interactionVars>>

\* handleMarkerModeChange of the component: the UI asks for display mode m.
handleMarkerModeChange(m) ==
  /\ ~isModeChanging
  /\ nMode < MaxModeChanges
  /\ nMode' = nMode + 1
  /\ isModeChanging' = TRUE
  /\ updateTimer' = FALSE                      \* stopUpdates
  /\ iconCache' = FALSE                        \* clearIconCache(true)
  /\ LET s == [Sys EXCEPT
                 !.co.currentMarkerMode = m,
                 !.co.eventQueue = SelectSeq(@, LAMBDA e: ~IsMarkerRelated(e.type))]
     IN Commit(queueEvent(s, "update_marker_mode", ModeInfo(Fresh, m), "critical"),
               "handleMarkerModeChange", "update_marker_mode", ModeInfo(Fresh, m),
               "critical")
  /\ UNCHANGED <<markers, nEnq>>
  /\ UNCHANGED <<markerVars, pollerVars, interactionVars>>

\* The 100 ms timer of handleMarkerModeChange fires: startUpdates, and the
\* guard is released.
modeChangeTimeout ==
  /\ isModeChanging
  /\ isModeChanging' = FALSE
  /\ updateTimer' = TRUE                       \* stopUpdates; scheduleNextUpdate(0)
  /\ last' = Record(Sys, "modeChangeTimeout", NoType, NullData, "undefined")
  /\ UNCHANGED <<coordinator, pending, markers, iconCache, clock, nEnq, nMode, owed>>
  /\ UNCHANGED <<markerVars, pollerVars, interactionVars>>

\* The poller's timer fires (scheduleNextUpdate): when the map is ready and the
\* user is not interacting, performUpdate() fetches data d and hands it to
\* updateMarkersFromData itself, then the next tick is scheduled.
pollerTick(d) ==
  /\ updateTimer
  /\ IF coordinator.isReady /\ ~coordinator.userInteracting /\ d # NullData
       THEN markers' = d.ref /\ iconCache' = TRUE
       ELSE UNCHANGED <<markers, iconCache>>
  /\ last' = Record(Sys, "pollerTick", NoType, d, "undefined")
  /\ UNCHANGED <<coordinator, pending, updateTimer, isModeChanging, clock, nEnq, nMode, owed>>
  /\ UNCHANGED <<markerVars, pollerVars, interactionVars>>

\* The coordinator under its callers: any call of queueEvent, any settlement.
Next ==
  \/ initializeMap
  \/ \E t \in GenericTypes, p \in Priorities, d \in {NullData, Obj(Fresh)}:
       Enqueue(t, d, p)
  \/ \E i \in DOMAIN pending: Resolve(i)
  \/ \E i \in DOMAIN pending: Reject(i)

Spec == Init /\ [][Next]_vars

\* A downstream operation completes or fails.
Settle == \E i \in DOMAIN pending: Resolve(i) \/ Reject(i)

\* The coordinator when every downstream operation that was dispatched
\* eventually completes or fails: the promise of each settles.
SpecSettling == Spec /\ WF_vars(Settle)

\* The application: the coordinator with the display-mode handler of the
\* component and the poller's timer.
NextApp ==
  \/ Next
  \/ \E m \in Modes: handleMarkerModeChange(m)
  \/ modeChangeTimeout
  \/ \E d \in {NullData, InitialReply}: pollerTick(d)

SpecApp == Init /\ [][NextApp]_vars

\* The marker manager under any succession of marker lists.
NextMarkers ==
  \/ \E markerList \in MarkerLists: runProcessMarkers(markerList)
  \/ \E markerList \in MarkerLists, refreshMode \in BOOLEAN:
       runUpdateMarkersFromData(
         [list |-> markerList, map_url |-> FALSE, refreshMode |-> refreshMode])

SpecMarkers == Init /\ [][NextMarkers]_vars

\* Everything but the marker manager and the display mode of the coordinator.
otherVars ==
  <<pending, markers, iconCache, updateTimer, isModeChanging, clock, nEnq, nMode, last, owed,
    realtimeManager, timeouts, performing, polled, userInteractionManager, debounces,
    gestures>>

\* The operation of an update_marker_mode event, or a zoom across the cluster
\* threshold (handleZoomChange), changes the display mode; the marker data is
\* as it was.
runUpdateMarkerMode(mode) ==
  /\ LET s == updateMarkerMode(Manager, mode) IN
       /\ markerManager' = [k \in DOMAIN NoMarkers |-> s[k]]
       /\ coordinator' = [coordinator EXCEPT !.currentMarkerMode = s.currentMarkerMode]
       /\ refresh' = [refresh EXCEPT !.call = "updateMarkerMode", !.updated = s.updated,
                                     !.created = s.created, !.removed = s.removed,
                                     !.size = Len(markerManager.markers),
                                     !.map_url = FALSE, !.refreshMode = FALSE,
                                     !.updatedFrom = s.updatedFrom]
  /\ UNCHANGED otherVars

\* Lists long enough for the difference in length to pass the rebuild limit.
MaxListLength == 12

\* A list of n markers with coordinates, all at one longitude.
MarkersAt(lon, n) == [k \in 1..n |-> [i |-> k, lat |-> "10", lon |-> lon, var |-> 0]]

LongLists == {MarkersAt(lon, n) : lon \in Longitudes, n \in 0..MaxListLength}

\* The marker manager under lists of any length and data with any flag: the
\* live set is built from a list at either longitude (at the far one it holds
\* two entries for each marker) and refreshed from lists at the near one.
NextRefreshRule ==
  \/ \E markerList \in LongLists: runProcessMarkers(markerList)
  \/ \E n \in 0..MaxListLength, map_url \in BOOLEAN, refreshMode \in BOOLEAN:
       LET markerList == MarkersAt(0, n) IN
       runUpdateMarkersFromData(
         [list |-> markerList, map_url |-> map_url, refreshMode |-> refreshMode])

SpecRefreshRule == Init /\ [][NextRefreshRule]_vars

\* Longitudes on both sides of the date-line limit and at the ends of the range.
EdgeLongitudes == {-180, -178, -141, -140, -139, 0, 139, 140, 141, 175, 180}

\* Lists of markers with coordinates at those longitudes.
DateLineLists ==
  UNION {[1..n -> {[i |-> k, lat |-> "10", lon |-> lon, var |-> 0] :
                     k \in 1..MaxMarkers, lon \in EdgeLongitudes}] : n \in 0..MaxMarkers}

\* The first list of the component is processed (initMapWithData submits it
\* once, when the map is initialised).
processFirstMarkers(markerList) ==
  /\ refresh.op = "none"
  /\ \A k \in DOMAIN markerList : markerList[k].i = k
  /\ runProcessMarkers(markerList)

NextDateLine == \E markerList \in DateLineLists: processFirstMarkers(markerList)

SpecDateLine == Init /\ [][NextDateLine]_vars

\* The display modes with and without the clustering modifier.
ClusterModes == Modes \cup {"num_state_cluster", "cn_on_hub_cluster"}

\* A live set under any succession of display-mode changes.
NextCluster ==
  \/ \E markerList \in MarkerLists: processFirstMarkers(markerList)
  \/ \E mode \in ClusterModes: runUpdateMarkerMode(mode)

SpecCluster == Init /\ [][NextCluster]_vars

\* Lists of markers of which any may lack its coordinates (a null lat stands
\* for a null coordinate), on either side of the date-line limit.
NullableLists ==
  {l \in MarkerLists : \A k \in DOMAIN l : l[k].var = 0}

\* The marker manager under any succession of such lists.
NextNullable ==
  \/ \E markerList \in NullableLists: runProcessMarkers(markerList)
  \/ \E markerList \in NullableLists: runUpdateMarkersFromData(ListOnly(markerList))

SpecNullable == Init /\ [][NextNullable]_vars

\* The user opens the popup bound to a marker drawn on the map; the map shows
\* one popup at a time.
openPopup(id) ==
  /\ id \in DOMAIN markerManager.markerInstances
  /\ \/ id \in markerManager.markerLayer
     \/ id \in markerManager.clusterGroup /\ markerManager.clusterOnMap
  /\ ~markerManager.markerInstances[id].isPopupOpen
  /\ markerManager' =
       [markerManager EXCEPT
          !.markerInstances = [k \in DOMAIN @ |-> [@[k] EXCEPT !.isPopupOpen = (k = id)]]]
  /\ refresh' = [refresh EXCEPT !.call = "openPopup"]
  /\ UNCHANGED appVars

\* The user closes the popup that is open.
closePopup ==
  /\ \E id \in DOMAIN markerManager.markerInstances :
       markerManager.markerInstances[id].isPopupOpen
  /\ markerManager' =
       [markerManager EXCEPT
          !.markerInstances = [k \in DOMAIN @ |-> [@[k] EXCEPT !.isPopupOpen = FALSE]]]
  /\ refresh' = [refresh EXCEPT !.call = "closePopup"]
  /\ UNCHANGED appVars

\* Lists of markers that all have their coordinates, each in one of two
\* forms that differ in position and in variant.
LocatedLists ==
  {l \in MarkerLists :
     \A k \in DOMAIN l : l[k].lat # "null" /\ (l[k].var = 1) = (l[k].lon > DateLineLongitude)}

\* The marker manager refreshed from such lists after a first build, with the
\* user opening and closing popups in between.
NextPopup ==
  \/ \E markerList \in LocatedLists: processFirstMarkers(markerList)
  \/ \E markerList \in LocatedLists:
       /\ refresh.op # "none"
       /\ runUpdateMarkersFromData(ListOnly(markerList))
  \/ \E id \in DOMAIN markerManager.markerInstances: openPopup(id)
  \/ closePopup

SpecPopup == Init /\ [][NextPopup]_vars

\* ------------------------------------------------- realtime manager steps

MaxTicks == 4

MaxCalls == 3

\* What fetchUpdatedData finds in dataP when an update is performed: nothing,
\* data with a list of markers, or data whose list holds a null entry, which
\* updateChangedMarkers throws on before it changes a marker.
PolledLists == {<<>>, <<[i |-> 1, lat |-> "10", lon |-> 0, var |-> 0]>>}

PolledData ==
  {[kind |-> "null", data |-> ListOnly(<<>>)], [kind |-> "broken", data |-> ListOnly(<<>>)]}
    \cup {[kind |-> "list", data |-> ListOnly(l)] : l \in PolledLists}

OutcomeOf(d) ==
  CASE d.kind = "null" -> "no data"
    [] d.kind = "list" -> "updated"
    [] d.kind = "broken" -> "failed"

\* The markers are refreshed by an update that got data it could process.
PolledRefresh(began, d) ==
  IF began /\ d.kind = "list"
    THEN Refreshed(updateMarkersFromData(Manager, d.data), "updateMarkersFromData", d.data)
    ELSE UNCHANGED markerVars

\* The variables a realtime manager step leaves alone.
pollerFrame ==
  <<coordinator, pending, markers, iconCache, updateTimer, isModeChanging, clock,
    nEnq, nMode, last, owed, userInteractionManager, debounces, gestures>>

\* A realtime manager step ends: p is the state it leaves, op its name.
Polled(p, op, outcome, isCall, isTick, stopped, paused) ==
  /\ realtimeManager' = p.rm
  /\ timeouts' = p.timeouts
  /\ polled' = [op |-> op,
                ticks |-> polled.ticks + (IF isTick THEN 1 ELSE 0),
                calls |-> polled.calls + (IF isCall THEN 1 ELSE 0),
                updates |-> p.now,
                stopped |-> stopped, scheduled |-> p.scheduled, cleared |-> p.cleared,
                began |-> p.began, outcome |-> outcome, found |-> realtimeManager,
                pendingBefore |-> BagCardinality(timeouts), paused |-> paused,
                ready |-> coordinator.isReady, interacting |-> coordinator.userInteracting,
                started |-> IF op = "startUpdates" THEN TRUE
                            ELSE IF op = "stopUpdates" THEN FALSE
                            ELSE polled.started]

\* An update that failed leaves the error count at the limit.
Pauses(p, outcome) ==
  outcome = "failed" /\ p.rm.errorCount >= maxConsecutiveErrors

\* A caller may call the realtime manager while no promise callback runs.
CanCall == polled.calls < MaxCalls /\ ~performing.settling

\* A timer or an event may run its callback when no update is under way.
CanRun == performing.calls = <<>>

callStartUpdates(interval) ==
  /\ CanCall
  /\ Polled(startUpdates(Poller, interval), "startUpdates", "none", TRUE, FALSE, FALSE, FALSE)
  /\ UNCHANGED <<performing, pollerFrame, markerVars>>

callStopUpdates ==
  /\ CanCall
  /\ Polled(stopUpdates(Poller), "stopUpdates", "none", TRUE, FALSE, TRUE, polled.paused)
  /\ UNCHANGED <<performing, pollerFrame, markerVars>>

callSetUpdateInterval(seconds) ==
  /\ CanCall
  /\ Polled(setUpdateInterval(Poller, seconds), "setUpdateInterval", "none", TRUE, FALSE,
            polled.stopped /\ ~realtimeManager.updateTimer.set,
            polled.paused /\ ~realtimeManager.updateTimer.set)
  /\ UNCHANGED <<performing, pollerFrame, markerVars>>

\* forceUpdate is called: performUpdate runs to its first await, and the
\* caller goes on.
callForceUpdate ==
  /\ CanCall
  /\ Polled(forceUpdate(Poller), "forceUpdate", "none", TRUE, FALSE, FALSE, FALSE)
  /\ performing' = [performing EXCEPT !.calls = Append(@, Performing("updating", <<>>))]
  /\ UNCHANGED <<pollerFrame, markerVars>>

\* The performUpdate call of a forceUpdate goes on from its await to its end,
\* once the caller has returned.
forcedUpdateEnds(i, d) ==
  /\ performing.calls[i].stage = "updating"
  /\ LET p == endUpdate(Poller, OutcomeOf(d), FALSE)
     IN /\ Polled(p, "forcedUpdateEnds", OutcomeOf(d), FALSE, FALSE, polled.stopped,
                  polled.paused \/ Pauses(p, OutcomeOf(d)))
        /\ performing' =
             [calls |-> [performing.calls EXCEPT ![i] = Performing("performed", p.scheduled)],
              settling |-> TRUE]
  /\ PolledRefresh(TRUE, d)
  /\ UNCHANGED pollerFrame

\* The then callback of forceUpdate runs when its performUpdate call has
\* ended; the step records the timers the end of the update has set, the one
\* of the finally block included.
forcedUpdateThen(i) ==
  /\ performing.calls[i].stage = "performed"
  /\ Polled(scheduleNextUpdate([Poller EXCEPT !.scheduled = performing.calls[i].scheduled],
                               DefaultDelay),
            "forcedUpdateThen", "none", FALSE, FALSE, polled.stopped, polled.paused)
  /\ LET rest == Without(performing.calls, i)
     IN performing' = [calls |-> rest, settling |-> rest # <<>>]
  /\ UNCHANGED <<pollerFrame, markerVars>>

\* A pending timer fires: the one updateTimer holds (held) or another one.
timerFires(delay, held, d) ==
  /\ CanRun
  /\ polled.ticks < MaxTicks
  /\ BagIn(delay, timeouts)
  /\ LET isHeld == realtimeManager.updateTimer.pending
                     /\ realtimeManager.updateTimer.delay = delay
     IN IF held THEN isHeld
        ELSE CopiesIn(delay, timeouts) > (IF isHeld THEN 1 ELSE 0)
  /\ LET fired == [Poller EXCEPT !.timeouts = @ (-) SetToBag({delay}),
                                 !.rm.updateTimer.pending = IF held THEN FALSE ELSE @]
         p == timerCallback(fired, coordinator, OutcomeOf(d))
         outcome == IF p.began > 0 THEN OutcomeOf(d) ELSE "none"
     IN /\ Polled(p, "timerFires", outcome, FALSE, TRUE, polled.stopped,
                  polled.paused \/ (p.began > 0 /\ Pauses(p, outcome)))
        /\ PolledRefresh(p.began > 0, d)
  /\ UNCHANGED <<performing, pollerFrame>>

\* The operation of a realtime_update event calls performUpdate with the
\* coordinator, which schedules nothing.
performUpdateOfEvent(d) ==
  /\ CanRun
  /\ polled.calls < MaxCalls
  /\ Polled(endUpdate(beginUpdate(Poller), OutcomeOf(d), TRUE), "performUpdate",
            OutcomeOf(d), TRUE, FALSE, polled.stopped, polled.paused)
  /\ PolledRefresh(TRUE, d)
  /\ UNCHANGED <<performing, pollerFrame>>

\* The user starts to interact with the map.
startUserInteraction ==
  /\ CanRun
  /\ ~coordinator.userInteracting
  /\ coordinator' = [coordinator EXCEPT !.userInteracting = TRUE]
  /\ UNCHANGED <<otherVars, markerVars>>

\* The interaction has ended and the timer endUserInteraction set fires.
interactionTimeout ==
  /\ CanRun
  /\ coordinator.userInteracting
  /\ coordinator' = [coordinator EXCEPT !.userInteracting = FALSE]
  /\ UNCHANGED <<otherVars, markerVars>>

\* The realtime manager under its callers, its timers, the user and the
\* initialization of the map.
NextPoller ==
  \/ CanRun /\ initializeMap
  \/ startUserInteraction
  \/ interactionTimeout
  \/ \E interval \in {NoInterval, 2000}: callStartUpdates(interval)
  \/ callStopUpdates
  \/ callSetUpdateInterval(2)
  \/ callForceUpdate
  \/ \E i \in DOMAIN performing.calls, d \in PolledData: forcedUpdateEnds(i, d)
  \/ \E i \in DOMAIN performing.calls: forcedUpdateThen(i)
  \/ \E delay \in BagToSet(timeouts), held \in BOOLEAN, d \in PolledData:
       timerFires(delay, held, d)
  \/ \E d \in PolledData: performUpdateOfEvent(d)

SpecPoller == Init /\ [][NextPoller]_vars

\* The realtime manager started and stopped by its callers, with its timers,
\* the user and the initialization of the map.
NextTicks ==
  \/ initializeMap
  \/ startUserInteraction
  \/ interactionTimeout
  \/ \E interval \in {NoInterval, 2000}: callStartUpdates(interval)
  \/ callStopUpdates
  \/ \E delay \in BagToSet(timeouts), held \in BOOLEAN, d \in PolledData:
       timerFires(delay, held, d)

SpecTicks == Init /\ [][NextTicks]_vars

\* ------------------------------------------- user interaction manager steps

MaxGestures == 2

\* A step of the user interaction manager ends: u is the state it leaves, s
\* the coordinator with the events the step has queued.
Interacted(u, s, op, type, data, priority) ==
  /\ userInteractionManager' = u.uim
  /\ debounces' = u.debounces
  /\ Commit([s EXCEPT !.co.userInteracting = u.userInteracting], op, type, data, priority)

\* The events of the map are registered when the map is initialised.
MapEvents == coordinator.componentInstance

dragstart ==
  /\ MapEvents /\ ~gestures.drag /\ gestures.started < MaxGestures
  /\ gestures' = [gestures EXCEPT !.drag = TRUE, !.started = @ + 1]
  /\ Interacted(startInteraction(Interaction), Sys, "dragstart", NoType, NullData, "undefined")
  /\ UNCHANGED <<markers, iconCache, updateTimer, isModeChanging, nEnq, nMode>>
  /\ UNCHANGED <<markerVars, pollerVars>>

dragend ==
  /\ gestures.drag
  /\ gestures' = [gestures EXCEPT !.drag = FALSE]
  /\ Interacted(endInteraction(Interaction), Sys, "dragend", NoType, NullData, "undefined")
  /\ UNCHANGED <<markers, iconCache, updateTimer, isModeChanging, nEnq, nMode>>
  /\ UNCHANGED <<markerVars, pollerVars>>

\* handleZoomStart
zoomstart ==
  /\ MapEvents /\ ~gestures.zoom /\ gestures.started < MaxGestures
  /\ gestures' = [gestures EXCEPT !.zoom = TRUE, !.started = @ + 1]
  /\ Interacted(startInteraction(Interaction), Sys, "zoomstart", NoType, NullData, "undefined")
  /\ UNCHANGED <<markers, iconCache, updateTimer, isModeChanging, nEnq, nMode>>
  /\ UNCHANGED <<markerVars, pollerVars>>

\* The levels a zoom of the user ends at.
ZoomLevels == {5, 8, 9}

\* handleZoomEnd, after a zoom that leaves the map at the level zoom.
zoomendAt(zoom) ==
  /\ gestures.zoom
  /\ gestures' = [gestures EXCEPT !.zoom = FALSE, !.level = zoom, !.signals = @ + 1]
  /\ Interacted(zoomEnded(Interaction), Sys, "zoomend", NoType, NullData, "undefined")
  /\ UNCHANGED <<markers, iconCache, updateTimer, isModeChanging, nEnq, nMode>>
  /\ UNCHANGED <<markerVars, pollerVars>>

\* handleZoomEnd, after a zoom that ends at the level it began at.
zoomend == zoomendAt(gestures.level)

\* updateIconSizes(zoomLevel, true): the sizes are stored, an
\* update_icon_sizes event is queued with priority high (the icon cache is
\* cleared by the step that calls it).
updateIconSizes(s, zoomLevel, data) ==
  queueEvent([s EXCEPT !.co.iconSizes = calculateIconSizes(zoomLevel)],
             "update_icon_sizes", data, "high")

\* The timer of handleZoomEnd fires: the level of the map is read and stored,
\* updateIconSizes(zoomLevel, true), then endUserInteraction.
zoomDebounceFires(held) ==
  /\ CanFire(userInteractionManager.zoomDebounceTimer, zoomDebounceDelay, held)
  /\ LET fired == [Interaction EXCEPT
                     !.debounces = @ (-) SetToBag({zoomDebounceDelay}),
                     !.uim.zoomDebounceTimer.pending = IF held THEN FALSE ELSE @]
         zoomLevel == gestures.level
     IN Interacted(endInteraction(fired),
                   updateIconSizes([Sys EXCEPT !.co.currentZoom = zoomLevel],
                                   zoomLevel, Obj(Fresh)),
                   "zoomDebounceFires", "update_icon_sizes", Obj(Fresh), "high")
  /\ gestures' = [gestures EXCEPT !.signals = 0, !.burst = gestures.signals]
  /\ nEnq' = nEnq + 1
  /\ iconCache' = FALSE
  /\ UNCHANGED <<markers, updateTimer, isModeChanging, nMode>>
  /\ UNCHANGED <<markerVars, pollerVars>>

\* processPendingUpdates
processPendingUpdates(s) ==
  IF s.co.pendingUpdates /\ s.co.componentInstance
    THEN queueEvent([s EXCEPT !.co.pendingUpdates = FALSE], "data_update", Obj(Fresh), "normal")
    ELSE s

\* The timer of endUserInteraction fires.
interactionTimerFires(held) ==
  /\ CanFire(userInteractionManager.interactionTimeout, interactionDelay, held)
  /\ LET fired == [Interaction EXCEPT
                     !.debounces = @ (-) SetToBag({interactionDelay}),
                     !.uim.interactionTimeout.pending = IF held THEN FALSE ELSE @,
                     !.uim.isInteracting = FALSE,
                     !.userInteracting = FALSE]
     IN Interacted(fired,
                   IF coordinator.pendingUpdates THEN processPendingUpdates(Sys) ELSE Sys,
                   "interactionTimerFires", NoType, NullData, "undefined")
  /\ nEnq' = IF coordinator.pendingUpdates /\ coordinator.componentInstance
               THEN nEnq + 1 ELSE nEnq
  /\ UNCHANGED <<markers, iconCache, updateTimer, isModeChanging, nMode, gestures>>
  /\ UNCHANGED <<markerVars, pollerVars>>

\* The watcher of the component on someValueToPass: the backend has replied
\* with new data (dataIsLoaded is set when the component is mounted).
someValueToPass ==
  /\ nEnq < MaxEnqueues
  /\ nEnq' = nEnq + 1
  /\ Commit(IF coordinator.isReady
              THEN queueEvent(Sys, "data_update", Obj(Fresh), "normal")
              ELSE Sys,
            "someValueToPass", "data_update", Obj(Fresh), "normal")
  /\ UNCHANGED <<markers, iconCache, updateTimer, isModeChanging, nMode>>
  /\ UNCHANGED <<markerVars, pollerVars, interactionVars>>

\* The component with the gestures of the user, the timers of the user
\* interaction manager and the replies of the backend.
NextInteraction ==
  \/ initializeMap
  \/ dragstart
  \/ dragend
  \/ zoomstart
  \/ zoomend
  \/ \E held \in BOOLEAN: zoomDebounceFires(held)
  \/ \E held \in BOOLEAN: interactionTimerFires(held)
  \/ someValueToPass
  \/ \E i \in DOMAIN pending: Resolve(i)
  \/ \E i \in DOMAIN pending: Reject(i)

SpecInteraction == Init /\ [][NextInteraction]_vars

\* What a call that is handed no list records.
Called(s, call) ==
  /\ markerManager' = [k \in DOMAIN NoMarkers |-> s[k]]
  /\ refresh' = [refresh EXCEPT !.call = call, !.updated = s.updated,
                                !.created = s.created, !.removed = s.removed,
                                !.size = Len(markerManager.markers),
                                !.map_url = FALSE, !.refreshMode = FALSE,
                                !.updatedFrom = s.updatedFrom]

\* removeMarker is called with the id of a marker.
runRemoveMarker(markerId) ==
  /\ Called(removeMarker(Manager, markerId), "removeMarker")
  /\ UNCHANGED appVars

\* clearAllMarkers is called (the component calls it before it is destroyed).
runClearAllMarkers ==
  /\ Called(clearAllMarkers(Manager), "clearAllMarkers")
  /\ UNCHANGED appVars

\* The ids a list of the model can give a marker.
MarkerIds == [i : 1..MaxMarkers, dateline : BOOLEAN]

\* The marker manager under any succession of its operations.
NextLifecycle ==
  \/ \E markerList \in LocatedLists: runProcessMarkers(markerList)
  \/ \E markerList \in LocatedLists: runUpdateMarkersFromData(ListOnly(markerList))
  \/ \E markerId \in MarkerIds: runRemoveMarker(markerId)
  \/ runClearAllMarkers
  \/ \E mode \in {"num_state", "num_state_cluster"}: runUpdateMarkerMode(mode)

SpecLifecycle == Init /\ [][NextLifecycle]_vars

\* The operation of a marker event settles in the step that dispatches it:
\* r is what the marker manager call made of the payload.  The event is
\* submitted while no event is active, so it starts at once.
MarkerEvent(r, type, op, isValid, payload, data) ==
  /\ coordinator.componentInstance /\ coordinator.currentEvent.type = NoType
  /\ nEnq < MaxEnqueues
  /\ nEnq' = nEnq + 1
  /\ LET started == queueEvent(Sys, type, Obj(Fresh), "normal")
         settled == [started EXCEPT !.ops = SubSeq(@, 1, Len(@) - 1)]
     IN Commit(IF r.threw THEN handleEventError(settled) ELSE eventCompleted(settled),
               op, type, Obj(Fresh), "normal")
  /\ IF isValid
       THEN markers' = Fresh /\ iconCache' = TRUE
       ELSE UNCHANGED <<markers, iconCache>>
  /\ IF isValid
       THEN Refreshed(r.m, IF type = "process_markers" THEN "processMarkers"
                           ELSE "updateMarkersFromData", data)
       ELSE ReturnedEarly(r, IF type = "process_markers" THEN "processMarkers"
                             ELSE "updateMarkersFromData", payload)
  /\ UNCHANGED <<updateTimer, isModeChanging, nMode, pollerVars, interactionVars>>

\* A process_markers event with any value for data.markers.
processMarkersEvent(markerList) ==
  MarkerEvent(processMarkersOf(Manager, markerList), "process_markers",
              "processMarkersEvent", ValidList(markerList),
              IF IsArray(markerList) THEN "arrayWithNull" ELSE "noArray",
              ListOnly(IF ValidList(markerList) THEN markerList.items ELSE <<>>))

\* A data_update event with any value for data.data.
dataUpdateEvent(data) ==
  MarkerEvent(updateMarkersFromDataOf(Manager, data), "data_update",
              "dataUpdateEvent", ValidData(data),
              IF Falsy(data) THEN "noData"
              ELSE IF Falsy(data.list) THEN "noList" ELSE "arrayWithNull",
              ListOnly(IF ValidData(data) THEN data.list.items ELSE <<>>))

\* The values handed over as a list, and as data.
ListValues ==
  {Undefined, Null, NotAnArray, ArrayWithNull} \cup {Array(l) : l \in LocatedLists}

DataValues == {Undefined, Null} \cup {DataWith(list) : list \in ListValues \ {NotAnArray}}

\* The marker manager under marker events with any payload, once the map is
\* initialised and its first list processed.
NextPayloads ==
  \/ initializeMap
  \/ \E i \in DOMAIN pending: Resolve(i)
  \/ \E markerList \in LocatedLists: processFirstMarkers(markerList)
  \/ \E markerList \in ListValues: processMarkersEvent(markerList)
  \/ \E data \in DataValues: dataUpdateEvent(data)

SpecPayloads == Init /\ [][NextPayloads]_vars

\* updateMarker when making or setting the icon throws: the instance has been
\* moved (setLatLng) and nothing else has changed.
updateMarkerThrowing(s, markerData) ==
  [s EXCEPT !.markerInstances[markerData.id] =
               [@ EXCEPT !.lat = markerData.lat,
                         !.lon = normalizeCoordinates(markerData.lon)]]

\* The markers of a list that updateChangedMarkers hands to updateMarker and
\* whose icon cannot be made: failing holds the ids of such markers.
FailingUpdates(s, newMarkerList, failing) ==
  {k \in DOMAIN newMarkerList :
     LET newMarker == WithId(newMarkerList[k]) IN
     /\ newMarker.lat # "null"
     /\ newMarker.id \in failing
     /\ newMarker.id \in Ids(s.markers) \cap DOMAIN s.markerInstances
     /\ hasMarkerChanged(s.markers[Find(s.markers, newMarker.id)], newMarker)}

Min(S) == CHOOSE k \in S : \A j \in S : k <= j

\* updateChangedMarkers with markers whose icon cannot be made: the loop has
\* no handler, so the first such marker it updates ends the call.
updateChangedMarkersOf(s, newMarkerList, failing) ==
  LET thrown == FailingUpdates(s, newMarkerList, failing) IN
  IF thrown = {} THEN Returns(updateChangedMarkers(s, newMarkerList))
  ELSE LET w == compareMarkers(
                  [s |-> s, markersToRemove |-> Ids(s.markers), markersToAdd |-> <<>>],
                  s.markers, SubSeq(newMarkerList, 1, Min(thrown) - 1))
       IN Throws(updateMarkerThrowing(w.s, WithId(newMarkerList[Min(thrown)])))

\* The loops of updateMarkerMode and of updateAllIconSizes over the marker
\* instances: a marker whose icon cannot be made keeps the one it has.
updateMarkerModeOf(s, mode, failing) ==
  LET t == updateMarkerMode(s, mode)
  IN Returns([t EXCEPT
                !.markerInstances =
                   [id \in DOMAIN @ |->
                      IF id \in failing
                        THEN [@[id] EXCEPT !.var = s.markerInstances[id].var,
                                           !.icon = s.markerInstances[id].icon,
                                           !.fillColor = s.markerInstances[id].fillColor]
                        ELSE @[id]]])

updateAllIconSizes(s, failing) ==
  Returns([s EXCEPT
             !.markerInstances =
                [id \in DOMAIN @ |->
                   IF id \in Ids(s.markers) /\ id \notin failing
                     THEN [@[id] EXCEPT
                             !.icon = createMarkerIcon(s.markers[Find(s.markers, id)]),
                             !.fillColor = fillColor(s.currentMarkerMode,
                                                     s.markers[Find(s.markers, id)])]
                     ELSE @[id]]])

\* The operation of an event that updates the markers one by one settles in
\* the step that dispatches it: r is what the marker manager call made of the
\* live set, failing the markers whose icon could not be made.
BatchEvent(r, type, op, call, list, failing) ==
  /\ coordinator.componentInstance /\ coordinator.currentEvent.type = NoType
  /\ nEnq < MaxEnqueues
  /\ nEnq' = nEnq + 1
  /\ LET started == queueEvent(Sys, type, Obj(Fresh), "normal")
         settled == [started EXCEPT !.ops = SubSeq(@, 1, Len(@) - 1),
                                    !.co.currentMarkerMode = r.m.currentMarkerMode]
     IN Commit(IF r.threw THEN handleEventError(settled) ELSE eventCompleted(settled),
               op, type, Obj(Fresh), "normal")
  /\ IF type = "data_update" /\ ~r.threw
       THEN markers' = Fresh /\ iconCache' = TRUE
       ELSE UNCHANGED <<markers, iconCache>>
  /\ markerManager' = [k \in DOMAIN NoMarkers |-> r.m[k]]
  /\ refresh' = [NoRefresh EXCEPT
                   !.op = IF r.threw THEN "threw" ELSE "returned",
                   !.updated = r.m.updated, !.created = r.m.created,
                   !.removed = r.m.removed, !.call = call, !.list = list,
                   !.size = Len(markerManager.markers),
                   !.payload = IF failing = {} THEN "list" ELSE "failing",
                   !.failing = failing,
                   !.errorBefore = [info |-> coordinator.errorInfo,
                                    state |-> coordinator.state]]
  /\ UNCHANGED <<updateTimer, isModeChanging, nMode, pollerVars, interactionVars>>

\* A data_update event whose list takes the incremental path, with markers
\* whose icon cannot be made.
dataUpdateFailing(markerList, failing) ==
  /\ ~shouldRefreshAllMarkers(Manager, ListOnly(markerList))
  /\ failing = {} \/ FailingUpdates(Manager, markerList, failing) # {}
  /\ BatchEvent(updateChangedMarkersOf(Manager, markerList, failing), "data_update",
                "dataUpdateFailing", "updateMarkersFromData", markerList, failing)

\* An update_marker_mode event, likewise.
markerModeFailing(mode, failing) ==
  /\ failing \subseteq DOMAIN markerManager.markerInstances
  /\ BatchEvent(updateMarkerModeOf(Manager, mode, failing), "update_marker_mode",
                "markerModeFailing", "updateMarkerMode", <<>>, failing)

\* An update_icon_sizes event, likewise.
iconSizesFailing(failing) ==
  /\ failing \subseteq DOMAIN markerManager.markerInstances
  /\ BatchEvent(updateAllIconSizes(Manager, failing), "update_icon_sizes",
                "iconSizesFailing", "updateAllIconSizes", <<>>, failing)

\* The ids of the markers of the lists, without their duplicates.
OriginalIds == {id \in MarkerIds : ~id.dateline}

\* The marker manager under events that update markers, some of which cannot
\* be given an icon, once the map is initialised and its first list processed.
NextFailures ==
  \/ initializeMap
  \/ \E i \in DOMAIN pending: Resolve(i)
  \/ \E markerList \in LocatedLists: processFirstMarkers(markerList)
  \/ \E markerList \in LocatedLists, failing \in SUBSET OriginalIds:
       dataUpdateFailing(markerList, failing)
  \/ \E mode \in {"num_state", "cn_on_hub"}, failing \in SUBSET OriginalIds:
       markerModeFailing(mode, failing)
  \/ \E failing \in SUBSET OriginalIds: iconSizesFailing(failing)

SpecFailures == Init /\ [][NextFailures]_vars

\* The zoom levels at which the icon sizes change.
sizeThresholds == {5, 7, 10, 13}

\* At or below this zoom level the markers are clustered.
clusterThreshold == 8

\* coordinator.currentMarkerMode + '_cluster'
WithCluster(mode) ==
  CASE mode = "num_state" -> "num_state_cluster"
    [] mode = "cn_on_hub" -> "cn_on_hub_cluster"
    [] OTHER -> mode

\* coordinator.currentMarkerMode.replace('_cluster', '')
WithoutCluster(mode) ==
  CASE mode = "num_state_cluster" -> "num_state"
    [] mode = "cn_on_hub_cluster" -> "cn_on_hub"
    [] OTHER -> mode

\* handleZoomChange with the level of the coordinator's last zoom change
\* given: the mode it leaves.
modeAfterZoom(mode, prevZoom, zoom) ==
  IF zoom <= clusterThreshold /\ prevZoom > clusterThreshold
    THEN IF ~IsClusterMode(mode) THEN WithCluster(mode) ELSE mode
  ELSE IF zoom > clusterThreshold /\ prevZoom <= clusterThreshold
    THEN IF IsClusterMode(mode) THEN WithoutCluster(mode) ELSE mode
  ELSE mode

\* handleZoomChange on the coordinator s and the marker manager m.
handleZoomChange(s, m, zoom, data) ==
  LET prevZoom == IF s.co.previousZoom # NullZoom THEN s.co.previousZoom ELSE zoom
      forceSizeUpdate ==
        \E threshold \in sizeThresholds :
          \/ prevZoom < threshold /\ zoom >= threshold
          \/ prevZoom >= threshold /\ zoom < threshold
      zoomed == [s EXCEPT !.co.currentZoom = zoom]
      sized == IF forceSizeUpdate THEN updateIconSizes(zoomed, zoom, data) ELSE zoomed
      mode == sized.co.currentMarkerMode
      newMode == modeAfterZoom(mode, prevZoom, zoom)
  IN [sys |-> [sized EXCEPT !.co.previousZoom = zoom, !.co.currentMarkerMode = newMode],
      manager |-> IF newMode # mode THEN updateMarkerMode(m, newMode) ELSE m,
      forceSizeUpdate |-> forceSizeUpdate,
      modeChanged |-> newMode # mode]

\* The last two entries of a trail.
LastTwo(trail) == IF Len(trail) > 2 THEN SubSeq(trail, Len(trail) - 1, Len(trail)) ELSE trail

\* The user zooms the map to a level and the zoom change is handled.
runZoomChange(zoom) ==
  /\ MapEvents /\ nEnq < MaxCalls
  /\ LET h == handleZoomChange(Sys, Manager, zoom, Obj(Fresh)) IN
       /\ Commit(h.sys, "handleZoomChange", "user_zoom_change", Obj(Fresh), "high")
       /\ markerManager' = [k \in DOMAIN NoMarkers |-> h.manager[k]]
       /\ iconCache' = IF h.forceSizeUpdate \/ h.modeChanged THEN FALSE ELSE iconCache
       /\ gestures' = [gestures EXCEPT
                         !.level = zoom,
                         !.trail = LastTwo(Append(@,
                                     [from |-> gestures.level, to |-> zoom,
                                      before |-> coordinator.currentMarkerMode,
                                      after |-> h.sys.co.currentMarkerMode]))]
  /\ nEnq' = nEnq + 1
  /\ UNCHANGED <<markers, updateTimer, isModeChanging, nMode, refresh, pollerVars,
                 userInteractionManager, debounces>>

\* The display mode under the zooms of the user and the modes the user
\* selects.
NextZoomChange ==
  \/ initializeMap
  \/ \E mode \in ClusterModes: runUpdateMarkerMode(mode)
  \/ \E zoom \in ZoomLevels: runZoomChange(zoom)
  \/ \E i \in DOMAIN pending: Resolve(i)

SpecZoomChange == Init /\ [][NextZoomChange]_vars

\* The zooms of the user: each ends at a level of the map and arms the zoom
\* debounce timer, which fires when no further zoom has ended for its delay.
NextZoom ==
  \/ initializeMap
  \/ zoomstart
  \/ \E zoom \in ZoomLevels: zoomendAt(zoom)
  \/ \E held \in BOOLEAN: zoomDebounceFires(held)
  \/ \E held \in BOOLEAN: interactionTimerFires(held)
  \/ \E i \in DOMAIN pending: Resolve(i)

SpecZoom == Init /\ [][NextZoom]_vars

\* ----------------------------------------------------------------- claims

Active == coordinator.currentEvent.type # NoType

\* The step taken last was a call of queueEvent that found an event active.
EnqueuedWhileActive == last.op = "queueEvent" /\ last.event.type # NoType

\* The step taken last was the settlement of a downstream promise.
Settled == last.op \in {"resolve", "resolveStale", "reject", "rejectStale"}

\* A type and payload executeEvent hands to a downstream operation.
Dispatchable(type) == coordinator.componentInstance /\ type \in DispatchCases

TypeAndData(e) == [type |-> e.type, data |-> e.data]

\* C1: at most one downstream operation dispatched by the coordinator is
\* running at any time: none is started while an earlier one has not settled.
C1_SingleActiveOperation == Len(pending) <= 1

\* C2 (as stated): after a critical queueEvent that found event A active, an
\* entry with A's type and data is at the front of the queue, the critical
\* event holds the active slot, and it was never placed in the queue.
CriticalPreemption ==
  /\ coordinator.eventQueue # <<>>
  /\ TypeAndData(Head(coordinator.eventQueue)) = TypeAndData(last.event)
  /\ Tail(coordinator.eventQueue) = last.queue
  /\ TypeAndData(coordinator.currentEvent) = TypeAndData(last)
  /\ coordinator.currentEvent.priority = "critical"

C2_CriticalAlwaysActive ==
  (EnqueuedWhileActive /\ last.priority = "critical") => CriticalPreemption

\* C2 (amended): the same, for a critical event whose type has a dispatch
\* case; a critical event of any other type is completed within the call.
C2_CriticalPreemption ==
  (EnqueuedWhileActive /\ last.priority = "critical" /\ Dispatchable(last.type))
    => CriticalPreemption

C2_Witness ==
  /\ EnqueuedWhileActive /\ last.priority = "critical" /\ Dispatchable(last.type)
  /\ last.queue # <<>>

\* C3: a preempted event is never discarded: the entry queued for it stays
\* in the queue until it is started again, whatever other operation runs.
C3_PreemptedNeverDiscarded ==
  \A i \in DOMAIN last.queue :
    last.queue[i].resumes =>
      \/ \E j \in DOMAIN coordinator.eventQueue : coordinator.eventQueue[j] = last.queue[i]
      \/ \E k \in DOMAIN last.started : last.started[k] = TypeAndData(last.queue[i])

\* C4: once every downstream operation has settled and none is left to start,
\* every preempted event has been started again with the type and data it had
\* when it was preempted.
C4_PreemptedRestarted == (pending = <<>> /\ ~Active) => (owed = {})

Highs(q) == {i \in DOMAIN q : q[i].priority = "high"}

\* The entry eventCompleted is to start: the high entry nearest the front,
\* or the front entry when no entry is high.
FirstHigh(q) ==
  IF Highs(q) = {} THEN Head(q)
  ELSE q[CHOOSE i \in Highs(q) : \A j \in Highs(q) : i <= j]

\* The high entry that was put in the queue first, or the front entry.
EarliestQueuedHigh(q) ==
  IF Highs(q) = {} THEN Head(q)
  ELSE q[CHOOSE i \in Highs(q) : \A j \in Highs(q) : q[i].timestamp <= q[j].timestamp]

Position(q, e) == CHOOSE i \in DOMAIN q : q[i] = e

\* Two entries of the same priority that are in both queues keep their order.
SamePriorityOrderKept(before, after) ==
  \A i, j \in DOMAIN after :
    (/\ i < j
     /\ after[i].priority = after[j].priority
     /\ \E k \in DOMAIN before : before[k] = after[i]
     /\ \E k \in DOMAIN before : before[k] = after[j])
      => Position(before, after[i]) < Position(before, after[j])

Preempted == EnqueuedWhileActive /\ last.started # <<>>

\* C6 (as stated): queueEvent replaces the active event only if the priority
\* is critical, or the priority is high and the active event is interruptible.
C6_OnlyCriticalOrHighPreempts ==
  Preempted =>
    \/ last.priority = "critical"
    \/ last.priority = "high" /\ last.event.isInterruptible

\* C6 (amended): queueEvent replaces the active event only if the priority is
\* critical, or the active event is interruptible and either the priority is
\* high or the event type is user-originated (its name starts with user_).
C6_PreemptionRule ==
  Preempted =>
    \/ last.priority = "critical"
    \/ /\ last.priority = "high" \/ IsUserType(last.type)
       /\ last.event.isInterruptible

C6_Witness == Preempted /\ last.priority = "normal" /\ IsUserType(last.type)

\* The dispatch of the active event threw: its case of executeEvent read a
\* property of a null payload, and no operation was handed the event.
DispatchThrew ==
  /\ coordinator.componentInstance
  /\ coordinator.currentEvent.type \in DerefCases
  /\ coordinator.currentEvent.data = NullData

\* C7: when the operation of the active event fails, by a rejected promise or
\* a throwing dispatch, code 500 and a message naming the event are recorded,
\* the state is error, and the failed event does not keep the active slot.
C7_FailureRecordedAndCleared ==
  /\ last.op = "reject" =>
       /\ coordinator.state = "error"
       /\ coordinator.errorInfo = [code |-> 500, event |-> last.type]
       /\ (last.queue = <<>> => ~Active)
       /\ (last.queue # <<>> => last.started # <<>>)
  /\ ~DispatchThrew

\* C8: the active slot is occupied exactly when a dispatched downstream
\* operation has not finished.
C8_SlotOccupiedIffRunning ==
  /\ (pending # <<>>) => Active
  /\ Active => (pending # <<>>)

\* C9: the live marker set, the icon cache and the display mode change only
\* in the step that completes the downstream operation of the active event.
C9_SharedStateOwnedByActiveEvent ==
  (Shared # last.shared) => (last.op = "resolve")

\* The new list equals the old one except for the variant of marker k.
DiffersInVariantOf(k, old, new) ==
  /\ Len(new) = Len(old)
  /\ k \in DOMAIN old
  /\ new[k].var # old[k].var
  /\ new[k] = [old[k] EXCEPT !.var = new[k].var]
  /\ \A j \in DOMAIN old : j # k => new[j] = old[j]

\* The call made last refreshed a live set built from a list of markers that
\* all have coordinates, with a list that differs in the variant of marker k.
RefreshedVariantOf(k) ==
  /\ refresh.op = "updateChangedMarkers"
  /\ refresh.builtFrom # <<>>
  /\ \A j \in DOMAIN refresh.builtFrom[1] : refresh.builtFrom[1][j].lat # "null"
  /\ DiffersInVariantOf(k, refresh.builtFrom[1], refresh.list)

\* C10: refreshing a live set built from a list L with a list that equals L
\* except for the variant of one marker updates one marker, creates none,
\* removes none and leaves every other live entry as it was.
C10_DiffMinimality ==
  \A k \in 1..MaxMarkers :
    RefreshedVariantOf(k) =>
      /\ refresh.updated = 1
      /\ refresh.created = 0
      /\ refresh.removed = 0
      /\ LET before == markersWithCoords(refresh.builtFrom[1]) IN
         \A j \in DOMAIN before :
           before[j].i # k =>
             \E n \in DOMAIN markerManager.markers : markerManager.markers[n] = before[j]

\* The difference in size between the marker data the call found and its list.
SizeDifference ==
  IF refresh.size > Len(refresh.list) THEN refresh.size - Len(refresh.list)
  ELSE Len(refresh.list) - refresh.size

\* C11: updateMarkersFromData processes every marker again exactly when the
\* marker data it finds and its list differ in size by more than 10 or the
\* data carries map_url or refreshMode; a difference of exactly 10 with
\* neither flag takes the incremental path.
C11_FullRebuildRule ==
  refresh.call = "updateMarkersFromData" =>
    /\ (refresh.op = "processMarkers") <=>
         (SizeDifference > 10 \/ refresh.map_url \/ refresh.refreshMode)
    /\ (refresh.op = "updateChangedMarkers") <=>
         (SizeDifference <= 10 /\ ~refresh.map_url /\ ~refresh.refreshMode)

C11_Witness ==
  /\ refresh.call = "updateMarkersFromData"
  /\ SizeDifference = 10 /\ ~refresh.map_url /\ ~refresh.refreshMode
  /\ refresh.op = "updateChangedMarkers"
  /\ refresh.size > 0

\* The live entries made for marker k of the list.
EntriesOf(k) == {n \in DOMAIN markerManager.markers : markerManager.markers[n].i = k}

Beyond140(lon) == lon < -140 \/ lon > 140

\* C12: processMarkers gives a marker beyond longitude -140 or 140 exactly one
\* more live entry, with id <id>_dateline, the same data and the longitude
\* 180+(180+lon) for a negative lon and -180-(180-lon) otherwise, and gives a
\* marker within [-140, 140] none; the longitude the duplicate is drawn at,
\* brought back by 360 when beyond 180, is within [-180, 180].
C12_DateLineDuplicate ==
  refresh.call = "processMarkers" =>
    \A k \in DOMAIN refresh.list :
      LET marker == refresh.list[k]
          live == markerManager.markers
          copies == {n \in EntriesOf(k) : live[n].id.dateline}
      IN /\ Cardinality(EntriesOf(k)) = IF Beyond140(marker.lon) THEN 2 ELSE 1
         /\ Cardinality(copies) = IF Beyond140(marker.lon) THEN 1 ELSE 0
         /\ \A n \in copies :
              /\ live[n].lon = IF marker.lon < 0 THEN 180 + (180 + marker.lon)
                               ELSE -180 - (180 - marker.lon)
              /\ live[n].lat = marker.lat /\ live[n].var = marker.var
              /\ live[n].id \in DOMAIN markerManager.markerInstances
              /\ markerManager.markerInstances[live[n].id].lon \in -180..180
              /\ markerManager.markerInstances[live[n].id].lon
                   \in {live[n].lon, live[n].lon + 360, live[n].lon - 360}

C12_Witness ==
  /\ refresh.call = "processMarkers"
  /\ Len(refresh.list) = 2
  /\ refresh.list[1].lon = 175 /\ refresh.list[2].lon = -178
  /\ Len(markerManager.markers) = 4

\* C13: switching the clustering modifier on and off, in any succession,
\* leaves the live set built from a list with the same marker ids, each with
\* the data and the position it had and the marker instance it had: none is
\* lost and none is created again.
C13_ClusterToggleLossless ==
  (refresh.call = "updateMarkerMode" /\ refresh.op = "processMarkers") =>
    LET live == markersWithCoords(refresh.list)
        instances == markerManager.markerInstances
    IN /\ markerManager.markers = live
       /\ DOMAIN instances = {live[n].id : n \in DOMAIN live}
       /\ \A n \in DOMAIN live :
            /\ ~instances[live[n].id].created
            /\ instances[live[n].id].lat = live[n].lat
            /\ instances[live[n].id].var = live[n].var
            /\ instances[live[n].id].lon
                 = IF live[n].lon < -180 THEN live[n].lon + 360 ELSE live[n].lon
       /\ markerManager.markerLayer \cup markerManager.clusterGroup = DOMAIN instances
       /\ markerManager.markerLayer \cap markerManager.clusterGroup = {}

C13_Witness ==
  /\ refresh.call = "updateMarkerMode" /\ refresh.op = "processMarkers"
  /\ markerManager.hasClusterGroup /\ ~markerManager.currentClusterMode
  /\ Len(markerManager.markers) >= 2
  /\ markerManager.markerLayer = DOMAIN markerManager.markerInstances

\* The call made last was handed a list.
ListHanded == refresh.call \in {"processMarkers", "updateMarkersFromData"}

\* C14: after any succession of processMarkers and updateMarkersFromData calls
\* no marker data and no marker instance of the live set lacks a coordinate,
\* and a marker the last list holds without coordinates is not live, even if
\* a marker with its id was live before the call.
C14_NoNullCoordinates ==
  /\ \A n \in DOMAIN markerManager.markers : markerManager.markers[n].lat # "null"
  /\ \A id \in DOMAIN markerManager.markerInstances :
       markerManager.markerInstances[id].lat # "null"
  /\ ListHanded =>
       \A k \in DOMAIN refresh.list :
         refresh.list[k].lat = "null" =>
           /\ \A n \in DOMAIN markerManager.markers : markerManager.markers[n].i # k
           /\ \A id \in DOMAIN markerManager.markerInstances : id.i # k

C14_Witness ==
  /\ refresh.op = "updateChangedMarkers"
  /\ refresh.builtFrom # <<>>
  /\ \E k \in DOMAIN refresh.list :
       /\ refresh.list[k].lat = "null"
       /\ k \in DOMAIN refresh.builtFrom[1]
       /\ refresh.builtFrom[1][k].lat # "null"
  /\ markerManager.markers # <<>>

\* The marker data held for an id.
DataOf(id) == markerManager.markers[Find(markerManager.markers, id)]

\* C15: a marker that updateChangedMarkers updates keeps the instance it had
\* (the call makes no new one for it), on the layers that held it, its popup
\* open exactly when it was open before, and its position, its icon and popup
\* content and its marker data are those of the list.
C15_UpdateKeepsInstance ==
  (ListHanded /\ refresh.op = "updateChangedMarkers") =>
    \A id \in DOMAIN refresh.updatedFrom :
      /\ id \in DOMAIN markerManager.markerInstances
      /\ LET marker == markerManager.markerInstances[id]
             found == refresh.updatedFrom[id]
             markerData == WithId(refresh.list[id.i])
         IN /\ ~marker.created
            /\ marker.isPopupOpen = found.instance.isPopupOpen
            /\ (id \in markerManager.markerLayer) = found.onMarkerLayer
            /\ (id \in markerManager.clusterGroup) = found.inClusterGroup
            /\ marker.lat = markerData.lat
            /\ marker.lon = normalizeCoordinates(markerData.lon)
            /\ marker.var = markerData.var
            /\ id \in Ids(markerManager.markers)
            /\ DataOf(id) = markerData

C15_Witness ==
  /\ ListHanded /\ refresh.op = "updateChangedMarkers"
  /\ \E id \in DOMAIN refresh.updatedFrom :
       /\ refresh.updatedFrom[id].instance.isPopupOpen
       /\ id \in DOMAIN markerManager.markerInstances
       /\ markerManager.markerInstances[id].isPopupOpen
       /\ markerManager.markerInstances[id].var # refresh.updatedFrom[id].instance.var

\* C16: once a poller update has failed with the error count at
\* maxConsecutiveErrors, no timer is pending until startUpdates is called (or
\* a caller forces an update).
C16_PausedAfterErrors ==
  polled.paused => timeouts = EmptyBag

\* C17: after startUpdates exactly one timer is pending, with delay 0, and
\* every timer that was pending before the call has been cleared.
C17_StartLeavesOneTimer ==
  polled.op = "startUpdates" =>
    /\ timeouts = SetToBag({0})
    /\ polled.cleared = polled.pendingBefore

\* The timer that fired found the map not ready or the user interacting.
TickSkipped == polled.op = "timerFires" /\ (~polled.ready \/ polled.interacting)

\* C18: a timer that fires while the map is not ready or the user interacts
\* begins no update, leaves errorCount, lastUpdateTime and isUpdating as they
\* were and sets one timer with the delay updateInterval; a timer that fires
\* begins an update only if the map is ready and the user does not interact.
C18_TickSkipsWhenBusy ==
  /\ TickSkipped =>
       /\ polled.began = 0 /\ polled.outcome = "none"
       /\ realtimeManager.errorCount = polled.found.errorCount
       /\ realtimeManager.lastUpdateTime = polled.found.lastUpdateTime
       /\ realtimeManager.isUpdating = polled.found.isUpdating
       /\ polled.scheduled = <<realtimeManager.updateInterval>>
       /\ polled.cleared = 0
  /\ (polled.op = "timerFires" /\ polled.began > 0) =>
       (polled.ready /\ ~polled.interacting)

C18_Witness ==
  /\ TickSkipped
  /\ polled.interacting
  /\ polled.scheduled # <<>>
  /\ realtimeManager.errorCount > 0

\* C19: forceUpdate clears the timer updateTimer holds and begins one update,
\* and the end of that update, its then callback included, sets exactly one
\* timer, with the delay updateInterval.
C19_ForcedUpdateSchedulesOne ==
  /\ polled.op = "forceUpdate" =>
       /\ polled.began = 1
       /\ polled.cleared = (IF polled.found.updateTimer.pending THEN 1 ELSE 0)
       /\ ~realtimeManager.updateTimer.set
  /\ polled.op = "forcedUpdateThen" =>
       polled.scheduled = <<realtimeManager.updateInterval>>

\* C20: from a call of stopUpdates until startUpdates or forceUpdate is
\* called, no timer is pending.
C20_StoppedHasNoTimer ==
  polled.stopped => timeouts = EmptyBag

\* The reply of the backend arrived while the user was interacting.
ArrivedWhileInteracting == last.op = "someValueToPass" /\ coordinator.userInteracting

\* The event the step was about is active or queued.
Submitted ==
  \/ coordinator.currentEvent.type = last.type /\ coordinator.currentEvent.data = last.data
  \/ \E k \in DOMAIN coordinator.eventQueue :
       coordinator.eventQueue[k].type = last.type /\ coordinator.eventQueue[k].data = last.data

\* C21: a reply of the backend that arrives while the user is interacting
\* sets pendingUpdates and submits no data_update event until the interaction
\* has ended.
C21_RefreshDeferred ==
  ArrivedWhileInteracting => (coordinator.pendingUpdates /\ ~Submitted)

\* C30: userInteracting is set as long as a drag or a zoom of the user is in
\* progress.
C30_InteractingWhileGesture ==
  (gestures.drag \/ gestures.zoom) => coordinator.userInteracting

\* The step was a data_update event with no data or with data that has no
\* list, or a process_markers event with a value that is no array.
NoListHanded ==
  /\ last.op \in {"processMarkersEvent", "dataUpdateEvent"}
  /\ refresh.payload \in {"noData", "noList", "noArray"}

\* C22: updateMarkersFromData called with no data or data without a list, and
\* processMarkers called with a value that is no array, return without
\* creating, updating or removing a marker, and the event that dispatched
\* the call completes with no error recorded.
C22_InvalidDataIsNoOp ==
  NoListHanded =>
    /\ refresh.op = "returned"
    /\ refresh.created = 0 /\ refresh.updated = 0 /\ refresh.removed = 0
    /\ Len(markerManager.markers) = refresh.size
    /\ \A id \in DOMAIN markerManager.markerInstances :
         ~markerManager.markerInstances[id].created
    /\ coordinator.errorInfo = refresh.errorBefore.info
    /\ coordinator.state = "error" => refresh.errorBefore.state = "error"
    /\ coordinator.currentEvent.type = NoType /\ pending = <<>>

C22_Witness ==
  /\ NoListHanded /\ refresh.op = "returned"
  /\ last.op = "dataUpdateEvent"
  /\ markerManager.markers # <<>>

\* The call found an event active that the preemption branch of queueEvent
\* replaces.
HighOrUser == last.priority = "high" \/ IsUserType(last.type)

\* The event found active is at the front of the queue with priority high,
\* ahead of the entries the queue held, and the event handed over is active.
PreemptedToFront ==
  /\ coordinator.eventQueue # <<>>
  /\ TypeAndData(Head(coordinator.eventQueue)) = TypeAndData(last.event)
  /\ Head(coordinator.eventQueue).priority = "high"
  /\ Tail(coordinator.eventQueue) = last.queue
  /\ TypeAndData(coordinator.currentEvent) = TypeAndData(last)

\* The event handed over is the last entry of the queue, with its priority,
\* behind the entries the queue held, and the active event is the same.
AppendedToTail ==
  /\ Len(coordinator.eventQueue) = Len(last.queue) + 1
  /\ SubSeq(coordinator.eventQueue, 1, Len(last.queue)) = last.queue
  /\ TypeAndData(coordinator.eventQueue[Len(coordinator.eventQueue)]) = TypeAndData(last)
  /\ coordinator.eventQueue[Len(coordinator.eventQueue)].priority = last.priority
  /\ coordinator.currentEvent = last.event

\* C23 (as stated): a high or user-originated event enqueued while an
\* interruptible event is active puts that event at the queue front with
\* priority high and is active after the call; any other enqueue made while
\* an event is active appends to the tail and leaves the active event.
C23_HighPreemptsElseAppends ==
  EnqueuedWhileActive =>
    IF HighOrUser /\ last.event.isInterruptible THEN PreemptedToFront ELSE AppendedToTail

\* C23 (amended): the same for an enqueue whose priority is not critical, the
\* new event being active after the call when its type has a dispatch case;
\* an event of any other type is completed within the call.
C23_PreemptOrAppend ==
  (EnqueuedWhileActive /\ last.priority # "critical") =>
    IF HighOrUser /\ last.event.isInterruptible
      THEN Dispatchable(last.type) => PreemptedToFront
      ELSE AppendedToTail

C23_Witness ==
  /\ EnqueuedWhileActive /\ last.priority = "normal" /\ IsUserType(last.type)
  /\ last.event.isInterruptible /\ last.event.priority = "normal"
  /\ last.queue # <<>>
  /\ PreemptedToFront

\* The coordinator as startEvent leaves it before the event is dispatched:
\* an event of the type holds the active slot.
StartedWith(type) ==
  [Sys EXCEPT !.co.currentEvent =
                 [type |-> type, data |-> Obj(Fresh),
                  isInterruptible |-> isEventInterruptible(type),
                  priority |-> "normal"]]

NonInterruptibleTypes == {"initialization", "error_handling"}

\* What queueEvent makes of an event of a non-interruptible type in the
\* active slot: a critical event replaces it, any other is queued behind it.
QueuedBehind(type, eventType, priority) ==
  LET s == queueEvent(StartedWith(type), eventType, Obj(Fresh), priority)
      q == s.co.eventQueue
  IN IF priority = "critical"
       THEN /\ s.started # <<>>
            /\ Head(s.started).type = eventType
            /\ \E i \in DOMAIN s.started \cup DOMAIN q :
                 \/ i \in DOMAIN q /\ q[i].type = type
                 \/ i \in DOMAIN s.started /\ i > 1 /\ s.started[i].type = type
       ELSE /\ s.co.currentEvent.type = type
            /\ s.started = <<>>
            /\ q = Append(coordinator.eventQueue, q[Len(q)])
            /\ q[Len(q)].type = eventType /\ q[Len(q)].priority = priority

LiveIds == Ids(markerManager.markers)

InstanceIds == DOMAIN markerManager.markerInstances

Original(id) == [id EXCEPT !.dateline = FALSE]

Duplicate(id) == [id EXCEPT !.dateline = TRUE]

\* C25: after any succession of processMarkers and updateMarkersFromData
\* calls the duplicate <id>_dateline is live exactly when the marker <id> is
\* live with a longitude below -140 or above 140, in the marker data and among
\* the marker instances alike.
C25_DuplicateIffBeyond140 ==
  /\ \A n \in DOMAIN markerManager.markers :
       LET marker == markerManager.markers[n] IN
       IF marker.id.dateline
         THEN Original(marker.id) \in LiveIds
         ELSE (Duplicate(marker.id) \in LiveIds) <=> CrossesDateLine(marker)
  /\ \A id \in InstanceIds :
       id.dateline => Original(id) \in InstanceIds
  /\ \A n \in DOMAIN markerManager.markers :
       LET marker == markerManager.markers[n] IN
       (~marker.id.dateline /\ marker.id \in InstanceIds) =>
         ((Duplicate(marker.id) \in InstanceIds) <=> CrossesDateLine(marker))

\* C27: every marker of the live set, whether processMarkers created it or
\* updateChangedMarkers added or updated it, has the id made of its index i,
\* iconNumber i mod 16 and iconColor floor(i / 16), and is drawn with the
\* glyph of that number.
C27_IconOfIndex ==
  \A n \in DOMAIN markerManager.markers :
    LET marker == markerManager.markers[n] IN
    /\ marker.id.i = marker.i
    /\ marker.iconNumber = Number(marker.i % IconCount)
    /\ marker.iconColor = Number(marker.i \div IconCount)
    /\ marker.id \in InstanceIds =>
         markerManager.markerInstances[marker.id].icon
           = [glyph |-> marker.i % IconCount, circle |-> FALSE]

\* The marker data of a list as a set.
DataSet(markerList) == {markerList[n] : n \in DOMAIN markerList}

\* C26: the live set updateChangedMarkers leaves has the ids and the data
\* of the live set processMarkers makes from the same list, whatever the live
\* set was before the call.
C26_IncrementalEqualsRebuild ==
  (ListHanded /\ refresh.op = "updateChangedMarkers") =>
    LET rebuilt == markersWithCoords(refresh.list) IN
    /\ LiveIds = Ids(rebuilt)
    /\ InstanceIds = Ids(rebuilt)
    /\ DataSet(markerManager.markers) = DataSet(rebuilt)

\* C28: after every operation of the marker manager the marker data and the
\* marker instances hold the same ids, each once in the marker data; after
\* clearAllMarkers both are empty, and after updateMarkersFromData every
\* marker of the list has a marker instance.
C28_DataAndInstancesAgree ==
  /\ LiveIds = InstanceIds
  /\ \A m, n \in DOMAIN markerManager.markers :
       markerManager.markers[m].id = markerManager.markers[n].id => m = n
  /\ refresh.call = "clearAllMarkers" =>
       markerManager.markers = <<>> /\ InstanceIds = {}
  /\ refresh.call = "updateMarkersFromData" =>
       \A k \in DOMAIN refresh.list :
         refresh.list[k].lat # "null" => WithId(refresh.list[k]).id \in InstanceIds

\* The step was an event that updates markers one by one, and the icon of
\* one of them at least could not be made.
UpdateFailed ==
  /\ last.op \in {"dataUpdateFailing", "markerModeFailing", "iconSizesFailing"}
  /\ refresh.failing # {}

\* C29: when the icon of a marker cannot be made within updateChangedMarkers,
\* updateMarkerMode or updateAllIconSizes, the call returns, the event that
\* dispatched it completes with no error recorded, and every other marker is
\* updated: after a refresh each has the position and variant of the list.
C29_FailureDoesNotAbort ==
  UpdateFailed =>
    /\ refresh.op = "returned"
    /\ coordinator.errorInfo = refresh.errorBefore.info
    /\ coordinator.state = "error" => refresh.errorBefore.state = "error"
    /\ coordinator.currentEvent.type = NoType
    /\ last.op = "dataUpdateFailing" =>
         \A k \in DOMAIN refresh.list :
           LET newMarker == WithId(refresh.list[k]) IN
           newMarker.id \notin refresh.failing =>
             /\ newMarker.id \in InstanceIds
             /\ markerManager.markerInstances[newMarker.id].var = newMarker.var
             /\ markerManager.markerInstances[newMarker.id].lon
                  = normalizeCoordinates(newMarker.lon)

\* The events of the active slot and of the queue that carry the type and
\* the payload of the last call.
Carrying ==
  (IF coordinator.currentEvent.type = last.type /\ coordinator.currentEvent.data = last.data
     THEN 1 ELSE 0)
  + Cardinality({k \in DOMAIN coordinator.eventQueue :
                   /\ coordinator.eventQueue[k].type = last.type
                   /\ coordinator.eventQueue[k].data = last.data})

\* C31: at most one zoom debounce timer is pending at any time; when it fires
\* after a burst of zoom-end signals no zoom debounce timer is left, so it
\* fires once for the burst, and the firing stores the level the map was left
\* at by the last signal, calculates the icon sizes of that level and queues
\* exactly one update_icon_sizes event.
C31_OneRecalculationPerBurst ==
  /\ CopiesIn(zoomDebounceDelay, debounces) <= 1
  /\ gestures.signals > 0 => BagIn(zoomDebounceDelay, debounces)
  /\ last.op = "zoomDebounceFires" =>
       /\ ~BagIn(zoomDebounceDelay, debounces)
       /\ gestures.burst >= 1
       /\ coordinator.currentZoom = gestures.level
       /\ coordinator.iconSizes = calculateIconSizes(gestures.level)
       /\ Carrying = 1

\* The timer has fired after a burst of two zoom-end signals at least, which
\* left the map at another level than the initial one.
C31_Witness ==
  /\ last.op = "zoomDebounceFires"
  /\ gestures.burst >= 2
  /\ coordinator.currentZoom # InitialZoom
  /\ coordinator.iconSizes # calculateIconSizes(InitialZoom)

\* The zoom change handled last.
LastZoom == gestures.trail[Len(gestures.trail)]

\* C32: a handled zoom change leaves the clustering modifier on when the map
\* moved from above the clustering threshold to at or below it, off when it
\* moved from at or below the threshold to above it, and the display mode
\* unchanged otherwise; a zoom out past the threshold followed by a zoom back
\* in leaves the display mode that was active before the two.
C32_ThresholdTogglesCluster ==
  gestures.trail # <<>> =>
    /\ LastZoom.from > clusterThreshold /\ LastZoom.to <= clusterThreshold
         => LastZoom.after = WithCluster(LastZoom.before)
    /\ LastZoom.from <= clusterThreshold /\ LastZoom.to > clusterThreshold
         => LastZoom.after = WithoutCluster(LastZoom.before)
    /\ (LastZoom.from > clusterThreshold) = (LastZoom.to > clusterThreshold)
         => LastZoom.after = LastZoom.before
    /\ Len(gestures.trail) = 2 =>
         LET out == gestures.trail[1] IN
         /\ out.from > clusterThreshold /\ out.to <= clusterThreshold
         /\ LastZoom.to > clusterThreshold
         /\ LastZoom.before = out.after
         => LastZoom.after = out.before

\* The metric component of a display mode.
Metric(mode) == WithoutCluster(mode)

\* C33: the colour of every marker drawn follows from the metric of the
\* display mode alone: the discrete state colour when the metric is the
\* state, with or without the clustering modifier, and the interpolated
\* colour when the metric is continuous.
C33_ColourOfMetric ==
  \A id \in DOMAIN markerManager.markerInstances :
    id \in Ids(markerManager.markers) =>
      LET markerData == markerManager.markers[Find(markerManager.markers, id)] IN
      markerManager.markerInstances[id].fillColor
        = IF Metric(coordinator.currentMarkerMode) = "num_state"
            THEN getMarkerColor(markerData.var)
            ELSE getValueColor(markerData.var, DefaultModeMax, "default", "cn_on_hub")

\* A display-mode change holds the active slot.
ModeChangeActive == coordinator.currentEvent.type = "update_marker_mode"

\* C34: while an update_marker_mode event is active no timer of the poller
\* is pending, and no tick of the poller has fired on it: the poller is
\* started again only once the mode change has completed.
C34_NoPollingDuringModeChange ==
  /\ ModeChangeActive => ~updateTimer
  /\ last.op = "pollerTick" => last.event.type # "update_marker_mode"

\* C35: at most one timer of the poller is pending, whatever calls of
\* startUpdates, stopUpdates, forceUpdate and setUpdateInterval are made,
\* also while an update is in progress, and however the timers fire and the
\* updates end.
C35_OnePollerTimer ==
  BagCardinality(timeouts) <= 1

\* C36: whenever events wait in the queue the active slot is occupied.
C36_QueuedImpliesActive ==
  coordinator.eventQueue # <<>> => Active

\* An operation has completed or failed with two events waiting, and one of
\* them waits still.
C36_Witness ==
  /\ last.op \in {"resolve", "reject"}
  /\ Len(last.queue) = 2
  /\ Len(coordinator.eventQueue) = 1
  /\ Active

\* The coordinator is idle and no event waits.
Drained == ~Active /\ coordinator.eventQueue = <<>>

\* C37: when every downstream operation eventually completes or fails, then
\* once no further event is enqueued the coordinator becomes idle with an
\* empty queue and stays so, events that cannot be dispatched included.
C37_EventuallyDrained == <>[]Drained

\* An update of the poller is in progress, or the callback of one that
\* ended has still to run.
Updating == performing.calls # <<>> \/ performing.settling \/ realtimeManager.isUpdating

\* C38: from a call of startUpdates until stopUpdates is called or an update
\* fails with the error count at the limit, a timer of the poller is pending
\* whenever no update is in progress: after a tick skipped because the map
\* is not ready or the user interacts, after an update that found no data
\* and after an update that failed below the limit.
C38_NeverSilent ==
  polled.started /\ ~polled.paused /\ ~Updating => timeouts # EmptyBag

\* The timer fired, the update it began failed for the second time running,
\* below the limit, and a timer is pending.
C38_Witness ==
  /\ polled.started /\ ~polled.paused /\ ~Updating
  /\ polled.op = "timerFires"
  /\ polled.outcome = "failed"
  /\ realtimeManager.errorCount = maxConsecutiveErrors - 1
  /\ timeouts # EmptyBag

\* The marker is in the rendering target of the cluster mode and in no
\* other.
InItsTarget(id) ==
  IF markerManager.currentClusterMode
    THEN id \in markerManager.clusterGroup /\ id \notin markerManager.markerLayer
    ELSE id \in markerManager.markerLayer /\ id \notin markerManager.clusterGroup

\* C39: every live marker is displayed: its handle is in the cluster group
\* when the cluster mode is on and in the marker layer otherwise, in no other
\* target, and the cluster group is on the map while the cluster mode is on
\* (the marker layer is on the map from the initialization on).
C39_LiveMarkersDisplayed ==
  /\ \A id \in DOMAIN markerManager.markerInstances : InItsTarget(id)
  /\ markerManager.currentClusterMode /\ markerManager.markerInstances # NoInstances
       => markerManager.clusterOnMap

\* The call made last was queueEvent with priority critical, and the event
\* handed over is the only one it started.
StartedAsCritical ==
  last.op = "queueEvent" /\ last.priority = "critical" /\ Len(last.started) = 1

\* C40: the active slot records priority normal or critical, and critical
\* only for the event a call of queueEvent with priority critical has
\* started: an event started while the coordinator was idle, by a high or
\* user-originated preemption or from the queue is recorded as normal.  The
\* entry a critical preemption queues for the event it replaces carries the
\* priority the slot recorded.
C40_SlotPriority ==
  /\ Active => coordinator.currentEvent.priority \in {"normal", "critical"}
  /\ Active /\ last.started # <<>> =>
       (coordinator.currentEvent.priority = "critical" <=> StartedAsCritical)
  /\ Active /\ last.started = <<>> => coordinator.currentEvent = last.event
  /\ EnqueuedWhileActive /\ StartedAsCritical /\ Active =>
       /\ Head(coordinator.eventQueue).resumes
       /\ Head(coordinator.eventQueue).priority = last.event.priority

\* A critical event has replaced a critical event, which waits with priority
\* critical, after an event started from the idle coordinator was recorded as
\* normal.
C40_Witness ==
  /\ EnqueuedWhileActive /\ StartedAsCritical /\ Active
  /\ Len(coordinator.eventQueue) = 2
  /\ coordinator.eventQueue[1].priority = "critical"
  /\ coordinator.eventQueue[2].priority = "normal"
  /\ coordinator.eventQueue[2].resumes

====
